------------------------------- MODULE MCBPG -------------------------------
(***************************************************************************)
(* One instance of each half of libbpg.c: BPGDecoder on images with still  *)
(* and animated streams of one or two layers, and BPGFormat on every short *)
(* file.  The halves share no state.  The bytes of a file are written      *)
(* while no image has been opened, so their states add up.                 *)
(***************************************************************************)
EXTENDS BPGDecoder

Params(l, p) == [kind |-> "params", layer |-> l, pic |-> p]
First(l, p) == [kind |-> "first", layer |-> l, pic |-> p]
Slice(l, p) == [kind |-> "next", layer |-> l, pic |-> p]

Plain(p) == <<First(0, p), Slice(0, p)>>
AlphaFirst(p) == <<Params(1, p), First(1, p), Slice(1, p), First(0, p), Slice(0, p)>>
Mixed(p) == <<First(0, p), First(1, p), Slice(0, p), Slice(1, p)>>

Film(F(_)) == F(1) \o F(2) \o F(3)

Image(w, h, format, alpha, animated, nals) ==
    [w |-> w, h |-> h, format |-> format, alpha |-> alpha, animated |-> animated, nals |-> nals]

MCImages ==
    {Image(w, h, "420", FALSE, FALSE, Plain(1)) : w \in 1..4, h \in {1, 2, 5, 17, 24}}
    \cup {Image(2, 12, "420", FALSE, TRUE, Film(Plain)),
          Image(1, 9, "420", TRUE, TRUE, Film(AlphaFirst)),
          Image(2, 3, "444", TRUE, TRUE, Film(Mixed)),
          Image(3, 2, "GRAY", TRUE, FALSE, AlphaFirst(1))}

-----------------------------------------------------------------------------
(* Bytes that are told apart: 0, what a start code ends in, the escape byte *)
(* and one above it; for numbers, ends of ranges.  The header that begins   *)
(* in a zero is the one the scans could take for part of a start code.      *)
VARIABLES number, units, unit
written == <<number, units, unit>>

Format == INSTANCE BPGFormat WITH
    nals <- units, nal <- unit,
    NumberBytes <- {0, 1, 127, 128, 129, 131, 132, 255}, MaxNumber <- 5,
    NalBytes <- {0, 1, 3, 4}, MaxNal <- 6, MaxNals <- 2,
    Headers <- {<<0, 1>>}, Sizes <- {1, 256, 65537}

ASSUME FormatAssumption == Format!FormatAssumption

BothInit == Init /\ Format!Init
BothNext ==
    \/ number = <<>> /\ units = <<>> /\ unit = <<>> /\ Next /\ UNCHANGED written
    \/ image = NULL /\ Format!Next /\ UNCHANGED vars
BothSpec == BothInit /\ [][BothNext]_<<vars, written>>

\* A number of the header has one encoding that is accepted (BPGFormat.tla).
NumbersCanonical == Format!NumbersCanonical

\* NAL units reach the HEVC decoder as they were before they were escaped
\* (BPGFormat.tla).
UnitsArrive == Format!UnitsArrive
=============================================================================
