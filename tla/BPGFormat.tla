----------------------------- MODULE BPGFormat -----------------------------
(***************************************************************************)
(* The bytes between a BPG file and the HEVC decoder: numbers of the       *)
(* header (get_ue), the sequence parameter set libbpg builds (build_msps), *)
(* the NAL units it cuts from the file (find_nal_end,                      *)
(* hevc_decode_frame_internal) and what decode_nal_units of hevc.c takes   *)
(* out of the packet.  A file is written byte by byte: a number, or NAL    *)
(* units escaped as the HEVC standard says.  Sequences count from 1, so    *)
(* position i is the source's i - 1.                                       *)
(***************************************************************************)
EXTENDS Integers, Sequences, SequencesExt

CONSTANTS
    NumberBytes, MaxNumber,    \* bound: bytes of numbers, and how many
    NalBytes, MaxNal, MaxNals, \* bound: bytes of a NAL unit, its length, how many
    Headers,                   \* first two bytes of NAL units
    Sizes                      \* bound: widths and heights for build_msps

Bytes == 0..255
\* What a module that instantiates this one assumes of the constants.
FormatAssumption ==
    /\ NumberBytes \subseteq Bytes /\ NalBytes \subseteq Bytes
    /\ \A hd \in Headers : hd \in Seq(Bytes) /\ Len(hd) = 2

VARIABLES
    number,    \* bytes of a number of the header
    nals,      \* NAL units finished, unescaped: [code, bytes]
    nal        \* bytes of the one being written, <<>> before its header
vars == <<number, nals, nal>>

Fail == [ok |-> FALSE]

-----------------------------------------------------------------------------
(* get_ue32, get_ue: seven bits a byte, most significant first, modulo     *)
(* 2^32; a value is [hi, lo], 16 bits each.                                *)

Shift7(v, b) == LET lo == v.lo * 128 + (b % 128)
                IN  [hi |-> (v.hi * 128 + lo \div 65536) % 65536, lo |-> lo % 65536]
Zero == [hi |-> 0, lo |-> 0]

GetUe32Padded(buf) ==
    LET last == {i \in 1..Len(buf) : buf[i] < 128}
    IN  IF last = {} THEN Fail
        ELSE LET n == CHOOSE i \in last : \A j \in last : i <= j
             IN  [ok |-> TRUE, used |-> n, value |-> FoldLeft(Shift7, Zero, SubSeq(buf, 1, n))]
GetUe32(buf) ==
    LET last == {i \in 1..Len(buf) : buf[i] < 128}
    IN  IF last = {} \/ buf[1] = 128 THEN Fail
        ELSE LET n == CHOOSE i \in last : \A j \in last : i <= j
             IN  [ok |-> TRUE, used |-> n, value |-> FoldLeft(Shift7, Zero, SubSeq(buf, 1, n))]

\* Values of MAX_DATA_SIZE at most.
GetUe(buf) == LET r == GetUe32(buf)
              IN  IF r.ok /\ r.value.hi < 16384 THEN r ELSE Fail

-----------------------------------------------------------------------------
(* build_msps                                                              *)

Word(n) == <<n \div 16777216, (n \div 65536) % 256, (n \div 256) % 256, n % 256>>

Msps(chroma, width, height, depth, data) ==
    <<chroma>> \o Word(width) \o Word(height) \o <<depth - 8>> \o data

\* Every pair of zeros is escaped, whatever follows it.
EscapeMsps(m) ==
    LET from[i \in 1..Len(m) + 1] ==
            IF i > Len(m) THEN <<>>
            ELSE IF i < Len(m) /\ m[i] = 0 /\ m[i + 1] = 0 THEN <<0, 0, 3>> \o from[i + 2]
            ELSE <<m[i]>> \o from[i + 1]
    IN  from[1]

\* The NAL unit of an application specific type; its last byte is not zero.
MspsHeader == <<96, 1>>
BuildMspsOpen(m) == <<0, 0, 0, 1>> \o MspsHeader \o EscapeMsps(m)
BuildMsps(m) ==
    LET buf == <<0, 0, 0, 1>> \o MspsHeader \o EscapeMsps(m)
    IN  IF Last(buf) = 0 THEN Append(buf, 128) ELSE buf

-----------------------------------------------------------------------------
(* NAL units of the file                                                   *)

StartCode3(buf, i) == i + 2 <= Len(buf) /\ SubSeq(buf, i, i + 2) = <<0, 0, 1>>
StartCode4(buf, i) == i + 3 <= Len(buf) /\ SubSeq(buf, i, i + 3) = <<0, 0, 0, 1>>

\* find_nal_end: how many bytes the NAL unit at the start of buf takes.
FindNalEnd(buf, first) ==
    LET start == IF first THEN 0 ELSE IF StartCode4(buf, 1) THEN 4 ELSE IF StartCode3(buf, 1) THEN 3 ELSE -1
        ends == {i \in start + 1..Len(buf) - 2 : StartCode3(buf, i) \/ StartCode4(buf, i)}
    IN  IF start = -1 \/ start + 2 > Len(buf) THEN -1
        ELSE IF ends = {} THEN Len(buf) ELSE (CHOOSE i \in ends : \A j \in ends : i <= j) - 1

\* hevc_decode_frame_internal for one frame without alpha: the packet, every
\* NAL unit behind a start code of three bytes.
Packet(buf) ==
    LET from[i \in 1..Len(buf) + 1] ==
            LET rest == SubSeq(buf, i, Len(buf))
                first == i = 1
                start == IF first THEN 0 ELSE IF rest[3] = 0 THEN 4 ELSE 3
                len == FindNalEnd(rest, first)
            IN  IF rest = <<>> THEN [ok |-> TRUE, bytes |-> <<>>]
                ELSE IF Len(rest) < (IF first THEN 5 ELSE 2) THEN Fail
                ELSE IF Len(rest) < start + 3 \/ len < 0 THEN Fail
                ELSE LET more == from[i + len]
                     IN  IF ~more.ok THEN Fail
                         ELSE [ok |-> TRUE,
                               bytes |-> <<0, 0, 1>> \o SubSeq(rest, start + 1, len) \o more.bytes]
    IN  from[1]

-----------------------------------------------------------------------------
(* decode_nal_units, ff_hevc_extract_rbsp                                  *)

\* The scan looks at every second byte and steps back from a zero to one
\* before it.
StayAt(src, i) == i
StepBack(src, i) == IF i > 1 /\ src[i - 1] = 0 THEN i - 1 ELSE i

\* Where the first zeros are that are escaped or end the NAL unit, and how long
\* it is then known to be.
FirstZeros(src) ==
    LET n == Len(src)
        scan[i \in 1..n + 1] ==
            IF i >= n THEN [at |-> i, len |-> n]
            ELSE IF src[i] # 0 THEN scan[i + 2]
            ELSE LET j == StepBack(src, i)
                 IN  IF j + 2 <= n /\ src[j + 1] = 0 /\ src[j + 2] <= 3
                     THEN [at |-> j, len |-> IF src[j + 2] # 3 THEN j - 1 ELSE n]
                     ELSE scan[j + 2]
    IN  scan[1]

\* The bytes from i on without escapes, up to a start code or the end, and how
\* many bytes were read.
Unescape(src, from) ==
    LET n == Len(src)
        copy[i \in from..n + 1] ==
            IF i + 2 > n THEN [bytes |-> SubSeq(src, i, n), used |-> n]
            ELSE IF src[i + 2] > 3
            THEN [copy[i + 2] EXCEPT !.bytes = SubSeq(src, i, i + 1) \o @]
            ELSE IF src[i] = 0 /\ src[i + 1] = 0
            THEN IF src[i + 2] = 3 THEN [copy[i + 3] EXCEPT !.bytes = <<0, 0>> \o @]
                 ELSE [bytes |-> <<>>, used |-> i - 1]
            ELSE [copy[i + 1] EXCEPT !.bytes = <<src[i]>> \o @]
    IN  copy[from]

ExtractRbsp(src) ==
    LET z == FirstZeros(src)
    IN  IF z.at >= z.len THEN [bytes |-> SubSeq(src, 1, z.len), used |-> z.len]
        ELSE [Unescape(src, z.at) EXCEPT !.bytes = SubSeq(src, 1, z.at - 1) \o @]

\* The NAL units a packet is split into.
SplitPacket(buf) ==
    LET n == Len(buf)
        from[i \in 1..n + 1] ==
            LET codes == {k \in i..n - 3 : StartCode3(buf, k)}
                k == CHOOSE c \in codes : \A d \in codes : c <= d
                unit == ExtractRbsp(SubSeq(buf, k + 3, n))
                more == from[k + 3 + unit.used]
            IN  IF i > n - 3 THEN [ok |-> TRUE, units |-> <<>>]
                ELSE IF codes = {} \/ ~more.ok THEN Fail
                ELSE [ok |-> TRUE, units |-> <<unit.bytes>> \o more.units]
    IN  from[1]

-----------------------------------------------------------------------------
(* The file: a number, or NAL units as the HEVC standard writes them.      *)

\* Emulation prevention: a byte up to 3 after two zeros comes behind a 3.
EscapeByte(a, b) ==
    IF a.zeros = 2 /\ b <= 3
    THEN [bytes |-> a.bytes \o <<3, b>>, zeros |-> IF b = 0 THEN 1 ELSE 0]
    ELSE [bytes |-> Append(a.bytes, b), zeros |-> IF b = 0 THEN a.zeros + 1 ELSE 0]
Escaped(m) == FoldLeft(EscapeByte, [bytes |-> <<>>, zeros |-> 0], m).bytes

\* The first NAL unit has no start code, the others one of 3 or 4 bytes.
StartCode(i) == IF i = 1 THEN <<>> ELSE IF nals[i].code = 4 THEN <<0, 0, 0, 1>> ELSE <<0, 0, 1>>
File == FlattenSeq([i \in 1..Len(nals) |-> StartCode(i) \o Escaped(nals[i].bytes)])

Init == number = <<>> /\ nals = <<>> /\ nal = <<>>

WriteDigit ==
    /\ nals = <<>> /\ nal = <<>> /\ Len(number) < MaxNumber
    /\ \E b \in NumberBytes : number' = Append(number, b)
    /\ UNCHANGED <<nals, nal>>

BeginNal ==
    /\ number = <<>> /\ nal = <<>> /\ Len(nals) < MaxNals
    /\ nal' \in Headers
    /\ UNCHANGED <<number, nals>>

WriteByte ==
    /\ nal # <<>> /\ Len(nal) < MaxNal
    /\ \E b \in NalBytes : nal' = Append(nal, b)
    /\ UNCHANGED <<number, nals>>

\* A NAL unit ends with a stop bit, never in a zero byte; slices are longer than
\* the five bytes libbpg asks of the first one.
EndNal ==
    /\ Len(nal) >= 5 /\ Last(nal) # 0
    /\ \E code \in {3, 4} : nals' = Append(nals, [code |-> code, bytes |-> nal])
    /\ nal' = <<>>
    /\ UNCHANGED number

Next == WriteDigit \/ BeginNal \/ WriteByte \/ EndNal
Spec == Init /\ [][Next]_vars

-----------------------------------------------------------------------------
\* Numbers: the shortest encoding, for values a 32-bit count cannot exceed.
Shortest[n \in Nat] == IF n < 128 THEN <<n>>
    ELSE [i \in 1..Len(Shortest[n \div 128]) |-> 128 + (Shortest[n \div 128][i] % 128)] \o <<n % 128>>
Whole == number # <<>> /\ \A i \in 1..Len(number) : number[i] < 128 <=> i = Len(number)

\* A number of the header has one encoding that is accepted, the shortest, and
\* none if it exceeds 2^30 - 1; stated for numbers that fit into 32 bits.
NumbersCanonical == Whole /\ (Len(number) = 5 => number[1] < 144) =>
    LET r == GetUe(number)
    IN  /\ r.ok <=> number[1] # 128 /\ (Len(number) = 5 => number[1] < 132)
        /\ r.ok => r.used = Len(number) /\ Shortest[r.value.hi * 65536 + r.value.lo] = number

\* The NAL units of a file reach the HEVC decoder as they were before they were
\* escaped, one for one, although two programs look for their ends by rules of
\* their own.
NalsArrive == nals # <<>> /\ nal = <<>> =>
    LET p == Packet(File)
    IN  /\ p.ok
        /\ SplitPacket(p.bytes) = [ok |-> TRUE, units |-> [i \in 1..Len(nals) |-> nals[i].bytes]]

\* The parameter set libbpg builds reaches the decoder byte for byte, plus the
\* byte that keeps it from ending in a zero, and the NAL unit after it as well.
SpsArrives == nals = <<>> /\ nal # <<>> => \A width \in Sizes, height \in Sizes, chroma \in {0, 1} :
    LET m == Msps(chroma, width, height, 8, nal)
        units == SplitPacket(BuildMsps(m) \o <<0, 0, 1, 2, 1, 4, 4>>).units
    IN  /\ Len(units) = 2 /\ units[2] = <<2, 1, 4, 4>>
        /\ units[1] = MspsHeader \o m \/ (Last(m) = 0 /\ units[1] = MspsHeader \o m \o <<128>>)

\* What the file holds and what libbpg builds both reach the decoder.
UnitsArrive == NalsArrive /\ SpsArrives
=============================================================================
