----------------------------- MODULE BPGDecoder -----------------------------
(***************************************************************************)
(* One BPG image on its way through libbpg.c: the context that bpg_decoder *)
(* functions share, from the NAL units of the file over the pictures the   *)
(* two HEVC decoders return to the lines a caller reads.  The callers are  *)
(* decode_buffer of decoder.c, which writes a bitmap file, and a player of *)
(* animations that starts one frame after the other.                       *)
(***************************************************************************)
EXTENDS Integers, Sequences

CONSTANTS
    Images,     \* [w, h, format, alpha, animated, nals], see ImageAssumption
    NULL

Formats == {"GRAY", "420", "422", "444"}

\* A NAL unit is a parameter set or the like, the first slice of a picture, or
\* what may follow it within the picture; layer 1 is the alpha plane.
NALs == [kind : {"params", "first", "next"}, layer : {0, 1}, pic : Nat \ {0}]

ASSUME ImageAssumption == \A m \in Images :
    /\ m.w \in Nat \ {0} /\ m.h \in Nat \ {0} /\ m.format \in Formats
    /\ m.alpha \in BOOLEAN /\ m.animated \in BOOLEAN /\ m.nals \in Seq(NALs)

\* Where pictures of the colour or alpha layer begin.
Firsts(m, alpha) == {i \in 1..Len(m.nals) :
    m.nals[i].kind = "first" /\ ((m.alpha /\ m.nals[i].layer = 1) <=> alpha)}

\* "we assume the alpha and color data are correctly interleaved" (libbpg.c:428):
\* the pictures of a layer are numbered from one as they come, and none comes
\* before one of the other layer with a lower number.
ASSUME OrderAssumption == \A m \in Images : \A a, b \in BOOLEAN : \A i \in Firsts(m, a) :
    /\ \A j \in Firsts(m, b) : i < j => IF a = b THEN m.nals[i].pic < m.nals[j].pic
                                                 ELSE m.nals[i].pic <= m.nals[j].pic
    /\ m.nals[i].pic = 1 \/ \E j \in Firsts(m, a) : m.nals[j].pic = m.nals[i].pic - 1
ASSUME NullAssumption == NULL \notin Nat /\ NULL \notin Images

VARIABLES
    image,           \* what the context was opened for, NULL without one
    caller,          \* "bmp" for decode_buffer, "player"
    phase,           \* what the caller knows: "closed", "opened", "decoded",
                     \* "started" (lines may be read), "failed"
    decCtx, alphaCtx,    \* the HEVC decoders are open
    frame, alphaFrame,   \* picture held, 0 if none is, NULL without a frame
    pos,             \* input_buf_pos: NAL units consumed
    outputInited,    \* output_inited
    y,               \* current line
    yPic, aPic,      \* pictures y_buf (with cb_buf, cr_buf) and a_buf point to
    chroma,          \* cb_buf3, cr_buf3: slot -> <<picture, chroma line>>
    line,            \* the line read last: [y, luma, alpha, chroma], or NULL
    starts,          \* history: frames started
    file             \* outBuf: [size, rows], rows from offsets to lines, or NULL

context == <<image, caller, decCtx, alphaCtx>>
pictures == <<frame, alphaFrame, pos>>
output == <<outputInited, y, yPic, aPic, chroma, line, starts>>
vars == <<image, caller, phase, decCtx, alphaCtx, frame, alphaFrame, pos, outputInited,
          y, yPic, aPic, chroma, line, starts, file>>

-----------------------------------------------------------------------------
(* One frame of the stream: hevc_decode_frame_internal.                    *)

Least(S) == CHOOSE n \in S : \A m \in S : n <= m

\* Whether a picture of the colour or alpha layer begins before NAL unit n.
Begun(m, from, n, alpha) == \E i \in Firsts(m, alpha) : from <= i /\ i < n

\* The frame ends before what can only belong to the next one.
FrameEnd(m, from) ==
    LET next == {n \in from..Len(m.nals) :
                    /\ m.nals[n].kind # "next"
                    /\ Begun(m, from, n, FALSE)
                    /\ m.alpha => Begun(m, from, n, TRUE)}
    IN  Least(next \cup {Len(m.nals) + 1})

\* hevc_write_frame: pictures an HEVC decoder may return for its NAL units of
\* the frame, none if no picture begins in them.
Returned(m, from, alpha) ==
    LET firsts == {i \in Firsts(m, alpha) : from <= i /\ i < FrameEnd(m, from)}
    IN  IF firsts = {} THEN {} ELSE {m.nals[Least(firsts)].pic}

\* hevc_decode_frame_internal: the alpha picture is decoded first; a frame is
\* emptied before its decoder fails, and kept if memory runs out before.
Outcomes(m, from) ==
    LET alphas == IF m.alpha THEN Returned(m, from, TRUE) ELSE {alphaFrame}
    IN  [ok : {FALSE}, frame : {frame}, alpha : {alphaFrame} \cup IF m.alpha THEN {0} ELSE {}]
        \cup [ok : {FALSE}, frame : {frame, 0}, alpha : alphas]
        \cup [ok : {TRUE}, frame : Returned(m, from, FALSE), alpha : alphas]

-----------------------------------------------------------------------------
Init ==
    /\ image = NULL /\ caller = "player" /\ phase = "closed"
    /\ decCtx = FALSE /\ alphaCtx = FALSE
    /\ frame = NULL /\ alphaFrame = NULL /\ pos = 1
    /\ outputInited = FALSE /\ y = 0 /\ yPic = NULL /\ aPic = NULL
    /\ chroma = [i \in 0..7 |-> NULL] /\ line = NULL /\ starts = 0
    /\ file = NULL

\* bpg_decoder_open: a context of zeros.
Open ==
    /\ phase = "closed"
    /\ image' \in Images /\ caller' \in {"bmp", "player"}
    /\ phase' = "opened"
    /\ decCtx' = FALSE /\ alphaCtx' = FALSE
    /\ frame' = NULL /\ alphaFrame' = NULL /\ pos' = 1
    /\ outputInited' = FALSE /\ y' = 0 /\ yPic' = NULL /\ aPic' = NULL
    /\ chroma' = [i \in 0..7 |-> NULL] /\ line' = NULL /\ starts' = 0
    /\ file' = NULL

\* bpg_decoder_decode returns 0: both decoders were opened and gave a picture;
\* only an animation needs them again.
Decode ==
    /\ phase = "opened"
    /\ \E o \in Outcomes(image, 1) : o.ok /\ frame' = o.frame /\ alphaFrame' = o.alpha
    /\ pos' = FrameEnd(image, 1)
    /\ decCtx' = image.animated /\ alphaCtx' = (image.animated /\ image.alpha)
    /\ y' = -1
    /\ phase' = "decoded"
    /\ UNCHANGED <<image, caller, outputInited, yPic, aPic, chroma, line, starts, file>>

\* The header, a decoder, the first frame, the copy of the rest or the check of
\* the size fails: the frames go, open decoders stay until the context does.
DecodeFails ==
    /\ phase = "opened"
    /\ phase' = "failed"
    /\ alphaCtx' \in {FALSE, image.alpha}
    /\ decCtx' \in IF alphaCtx' = image.alpha THEN BOOLEAN ELSE {FALSE}
    /\ UNCHANGED <<image, caller, pictures, output, file>>

-----------------------------------------------------------------------------
(* Starting a frame.                                                       *)

\* The pointers to the planes of the pictures now held.
PointAtOldAlpha(luma, alpha) ==
    /\ yPic' = luma /\ aPic' = IF ~image.alpha THEN NULL ELSE IF aPic = NULL THEN alpha ELSE aPic
    /\ y' = 0
    /\ starts' = starts + 1
    /\ phase' = "started"
PointAt(luma, alpha) ==
    /\ yPic' = luma /\ aPic' = IF image.alpha THEN alpha ELSE NULL
    /\ y' = 0
    /\ starts' = starts + 1
    /\ phase' = "started"

\* bpg_decoder_start of the frame bpg_decoder_decode left.
StartFirst ==
    /\ ~outputInited
    /\ outputInited' = TRUE
    /\ PointAt(frame, alphaFrame)
    /\ UNCHANGED <<context, pictures, chroma, line>>

\* bpg_decoder_start of a further frame of an animation.
StartNext ==
    /\ caller = "player" /\ outputInited /\ image.animated
    /\ pos <= Len(image.nals)
    /\ \E o \in Outcomes(image, pos) :
        /\ frame' = o.frame /\ alphaFrame' = o.alpha
        /\ \/ /\ o.ok
              /\ pos' = FrameEnd(image, pos)
              /\ PointAt(o.frame, o.alpha)
           \/ /\ ~o.ok
              /\ phase' = "failed"
              /\ UNCHANGED <<pos, y, yPic, aPic, starts>>
    /\ UNCHANGED <<context, outputInited, chroma, line, file>>

PlayerStarts ==
    /\ caller = "player" /\ phase \in {"decoded", "started", "failed"} /\ frame # NULL
    /\ \/ StartFirst /\ UNCHANGED file
       \/ StartNext

-----------------------------------------------------------------------------
(* Reading lines.                                                          *)

ITAPS == 8
ITAPS2 == 4

\* The last chroma line, for an index past it.
Clamp(n, m) == LET h2 == (m.h + 1) \div 2
               IN  IF n < 0 THEN 0 ELSE IF n >= h2 THEN h2 - 1 ELSE n

\* The circular buffer a line of a 4:2:0 picture is interpolated from.
ChromaAt(m) == IF y = 0
    THEN [i \in 0..ITAPS - 1 |-> <<yPic, Clamp(IF i > ITAPS2 THEN i - ITAPS ELSE i, m)>>]
    ELSE chroma

\* An odd line is the last one of its chroma line: the next one comes in.
ChromaAfterLate(c, m) == IF y % 2 = 0 THEN c
    ELSE [c EXCEPT ![(y \div 2 + ITAPS2) % ITAPS] = <<yPic, Clamp(y \div 2 + ITAPS2 + 1, m)>>]
ChromaAfter(c, m) == IF y % 2 = 0 THEN c
    ELSE [c EXCEPT ![(y \div 2 + ITAPS2 + 1) % ITAPS] = <<yPic, Clamp(y \div 2 + ITAPS2 + 1, m)>>]

\* interp2_vh reads seven lines around the current one.
Taps(c) == [k \in -3..3 |-> c[(y \div 2 + k) % ITAPS]]

\* bpg_decoder_get_line
GetLine ==
    /\ phase = "started" /\ y < image.h
    /\ LET c == ChromaAt(image)
       IN  /\ chroma' = IF image.format = "420" THEN ChromaAfter(c, image) ELSE chroma
           /\ line' = [y |-> y, luma |-> yPic, alpha |-> aPic,
                       chroma |-> IF image.format = "420" THEN Taps(c) ELSE [k \in {0} |-> <<yPic, y>>]]
    /\ y' = y + 1
    /\ UNCHANGED <<context, phase, pictures, outputInited, yPic, aPic, starts>>

PlayerReads == caller = "player" /\ GetLine /\ UNCHANGED file

\* bpg_decoder_close. After a failed decode decode_buffer returns without it
\* and the context is lost. bmp_save_to_buffer writes all the rows, or gives
\* up before it starts if there is no memory for a row or for the file.
Close ==
    /\ phase \notin {"closed", "opened"}
    /\ caller = "bmp" /\ phase = "started" => y = image.h
    /\ phase' = "closed"
    /\ decCtx' = FALSE /\ alphaCtx' = FALSE /\ frame' = NULL /\ alphaFrame' = NULL
    /\ UNCHANGED <<image, caller, pos, output, file>>

-----------------------------------------------------------------------------
(* bmp_save_to_buffer                                                      *)

HeaderSize == 14 + 40

\* Bytes of a row, a multiple of four.
SizeOfLineUnpadded(m) == m.w * 3
SizeOfLine(m) == LET padding == CHOOSE n \in 0..3 : (m.w * 3 + n) % 4 = 0
                 IN  m.w * 3 + padding

BmpStarts ==
    /\ caller = "bmp" /\ phase = "decoded"
    /\ file' = [size |-> SizeOfLine(image) * image.h + HeaderSize, rows |-> {}]
    /\ StartFirst

\* Rows go from the end of the file to its front. The swap of the colours
\* inside a row is left out.
BmpRow ==
    /\ caller = "bmp" /\ GetLine
    /\ file' = [file EXCEPT !.rows = @ \cup {<<file.size - (y + 1) * SizeOfLine(image), y>>}]

Next ==
    \/ Open \/ Decode \/ DecodeFails
    \/ PlayerStarts \/ PlayerReads
    \/ BmpStarts \/ BmpRow
    \/ Close

Spec == Init /\ [][Next]_vars

-----------------------------------------------------------------------------
Pictures == Nat \ {0}

TypeOK ==
    /\ image \in Images \cup {NULL} /\ caller \in {"bmp", "player"}
    /\ phase \in {"closed", "opened", "decoded", "started", "failed"}
    /\ phase # "closed" => image \in Images
    /\ decCtx \in BOOLEAN /\ alphaCtx \in BOOLEAN
    /\ frame \in Nat \cup {NULL} /\ alphaFrame \in Nat \cup {NULL}
    /\ pos \in Nat \ {0} /\ outputInited \in BOOLEAN
    /\ y \in Int /\ y >= -1
    /\ phase = "started" => y \in 0..image.h
    /\ starts \in Nat

\* Every line read belongs to the frame started last, in the order of the
\* file, and its alpha to the same frame, however frames are split from the
\* stream, started early or fail.
InStep ==
    /\ TypeOK
    /\ phase = "started" =>
        /\ yPic = starts /\ frame = starts
        /\ image.alpha => aPic = starts /\ alphaFrame = starts

\* A line of a 4:2:0 picture is interpolated from the chroma lines around it,
\* of the same picture, the border lines standing for those beyond: what is
\* read from the circular buffer is never a line too old or of another frame.
ChromaRight == line # NULL /\ image.format = "420" =>
    \A k \in -3..3 : line.chroma[k] = <<line.luma, Clamp(line.y \div 2 + k, image)>>

\* A bitmap decode_buffer returns has its rows bottom-up, side by side between
\* the headers and its end.
BmpWhole == phase = "closed" /\ caller = "bmp" /\ file # NULL =>
    LET row == 4 * ((3 * image.w + 3) \div 4)
    IN  /\ file.size = HeaderSize + image.h * row
        /\ file.rows = {<<HeaderSize + (image.h - 1 - r) * row, r>> : r \in 0..image.h - 1}
=============================================================================
