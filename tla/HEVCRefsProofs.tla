--------------------------- MODULE HEVCRefsProofs ---------------------------
(***************************************************************************)
(* The decoded picture buffer for any number of slots and sequences, any   *)
(* parameter sets and any stream that keeps their promise: references stay *)
(* while slices may name them, no picture is stranded in a sequence that   *)
(* was passed, and pictures leave in output order.                         *)
(***************************************************************************)
EXTENDS HEVCRefs, FiniteSetTheorems, WellFoundedInduction, TLAPS

\* References are known only while slices of a picture are read, nothing is
\* read once the stream is drained, and what is active was received.
Control ==
    /\ ref # NULL => packet = "slices"
    /\ draining => packet = "none"
    /\ pps \/ spsCurrent => listSps # NULL

\* A picture that waits is one of the stream, and no other has its count.
Counted == \A i \in Waiting : dpb[i].poc \in Pocs
Apart == \A i, j \in Waiting : dpb[i].seq = dpb[j].seq /\ dpb[i].poc = dpb[j].poc => i = j

\* The history has the pictures of this sequence that wait.
Recorded == \A i \in Waiting : dpb[i].seq = seqDecode => dpb[i].poc \in decoded

\* Those of the sequence being output go after the last one.
Later == lastPoc # NULL => \A i \in Waiting : dpb[i].seq = seqOutput => dpb[i].poc > lastPoc

\* Where decoding goes on in the sequence being output, so many pictures are
\* decoded from the last one on that none it still promises comes before it.
Settled == lastPoc # NULL /\ seqOutput = seqDecode /\ spsCurrent /\ ~draining =>
    /\ lastPoc \in decoded
    /\ Cardinality({q \in decoded : q >= lastPoc}) > listSps.reorder

Buffered == Counted /\ Apart /\ NothingStranded /\ Recorded /\ Later
IInv == TypeOK /\ Control /\ Buffered /\ Settled /\ ReferencesLive

-----------------------------------------------------------------------------
(* Numbers.                                                                *)

\* A set of integers that has a lower bound, and is not empty, has a least
\* element.
LEMMA LeastInteger ==
    ASSUME NEW S \in SUBSET Int, NEW b \in Int, \A y \in S : b <= y, S # {}
    PROVE  /\ \E x \in S : \A y \in S : x <= y
           /\ Least(S) \in S /\ \A y \in S : Least(S) <= y
<1>1. PICK n \in S : TRUE  OBVIOUS
<1> DEFINE All == b..n
           R == StrictSubsetOrdering(All)
           T == {b..m : m \in {k \in S : k <= n}}
<1>2. IsFiniteSet(All)  BY FS_Interval
<1>3. IsWellFoundedOn(R, SUBSET All)
  <2> HIDE DEF All
  <2> QED BY <1>2, FS_StrictSubsetOrderingWellFounded, FS_FiniteSubsetsOfFinite
<1>4. T \subseteq SUBSET All  BY SMT
<1>5. b..n \in T  BY <1>1
<1>6. PICK x \in T : \A y \in T : ~ (<<y, x>> \in R)
  <2>1. T # {}  BY <1>5
  <2> HIDE DEF T, R, All
  <2> QED BY <2>1, <1>3, <1>4, WFMin
<1>7. PICK m \in S : m <= n /\ x = b..m  OBVIOUS
<1>8. ASSUME NEW y \in S, y < m PROVE FALSE
  <2>1. b..y \in T  BY <1>1, <1>7, <1>8
  <2>2. b..y \subseteq b..m /\ b..y # b..m
    <3>1. m \in b..m /\ m \notin b..y  BY <1>8
    <3> QED BY <1>8, <3>1
  <2>3. <<b..y, x>> \in R  BY <1>4, <1>7, <2>1, <2>2 DEF StrictSubsetOrdering
  <2> QED BY <1>6, <2>1, <2>3
<1>9. \A y \in S : m <= y  BY <1>8
<1> QED BY <1>9 DEF Least

\* Induction over the naturals for a set: one that has 0 and the successor of
\* each of its numbers has all.
LEMMA SetInduction ==
    ASSUME NEW G, 0 \in G, \A n \in Nat : n \in G => n + 1 \in G
    PROVE  Nat \subseteq G
<1> DEFINE S == Nat \ G
<1> SUFFICES ASSUME S # {} PROVE FALSE  OBVIOUS
<1>1. PICK x \in S : \A y \in S : x <= y
  <2>1. S \in SUBSET Int /\ \A y \in S : 0 <= y  OBVIOUS
  <2> HIDE DEF S
  <2> QED BY <2>1, LeastInteger
<1>2. x # 0 /\ x - 1 \in Nat  OBVIOUS
<1>3. x - 1 \in G  BY <1>1, <1>2
<1> QED BY <1>2, <1>3

-----------------------------------------------------------------------------
(* Sequence counters.                                                      *)

LEMMA AheadIs ==
    ASSUME NEW a \in 0..SeqWrap - 1, NEW b \in 0..SeqWrap - 1
    PROVE  Ahead(a, b) = IF a <= b THEN b - a ELSE b - a + SeqWrap
<1>1. CASE a <= b  BY <1>1, SizeAssumption DEF Ahead
<1>2. CASE a > b
  <2>1. (b - a) % SeqWrap = b - a + SeqWrap  BY <1>2, SizeAssumption
  <2> QED BY <1>2, <2>1, SizeAssumption DEF Ahead
<1> QED BY <1>1, <1>2

LEMMA AheadType ==
    ASSUME NEW a \in 0..SeqWrap - 1, NEW b \in 0..SeqWrap - 1
    PROVE  Ahead(a, b) \in 0..SeqWrap - 1
<1>1. Ahead(a, b) = IF a <= b THEN b - a ELSE b - a + SeqWrap  BY AheadIs
<1> QED BY <1>1, SizeAssumption

LEMMA NextSequence ==
    ASSUME NEW a \in 0..SeqWrap - 1, NEW k \in 0..SeqWrap - 1
    PROVE  /\ (a + k) % SeqWrap \in 0..SeqWrap - 1
           /\ Ahead(a, (a + k) % SeqWrap) = k
           /\ \A b \in 0..SeqWrap - 1 : Ahead(a, b) = k => b = (a + k) % SeqWrap
<1>1. (a + k) % SeqWrap = IF a + k < SeqWrap THEN a + k ELSE a + k - SeqWrap
  <2>1. CASE a + k < SeqWrap  BY <2>1, SizeAssumption
  <2>2. CASE a + k >= SeqWrap  BY <2>2, SizeAssumption
  <2> QED BY <2>1, <2>2, SizeAssumption
<1>2. (a + k) % SeqWrap \in 0..SeqWrap - 1  BY <1>1, SizeAssumption
<1>3. Ahead(a, (a + k) % SeqWrap) = k
  <2> DEFINE c == (a + k) % SeqWrap
  <2>1. Ahead(a, c) = IF a <= c THEN c - a ELSE c - a + SeqWrap
    <3> HIDE DEF c
    <3> QED BY <1>2, AheadIs DEF c
  <2> QED BY <1>1, <2>1, SizeAssumption
<1>4. ASSUME NEW b \in 0..SeqWrap - 1, Ahead(a, b) = k PROVE b = (a + k) % SeqWrap
  <2>1. Ahead(a, b) = IF a <= b THEN b - a ELSE b - a + SeqWrap  BY AheadIs
  <2> QED BY <1>1, <1>4, <2>1, SizeAssumption
<1> QED BY <1>2, <1>3, <1>4

\* Once the output has passed k sequences, those from there on are k nearer.
LEMMA PassedOn ==
    ASSUME NEW a \in 0..SeqWrap - 1, NEW b \in 0..SeqWrap - 1, NEW k \in 0..SeqWrap - 1,
           k <= Ahead(a, b)
    PROVE  Ahead((a + k) % SeqWrap, b) = Ahead(a, b) - k
<1> DEFINE c == (a + k) % SeqWrap
<1>1. c \in 0..SeqWrap - 1 /\ Ahead(a, c) = k  BY NextSequence
<1> HIDE DEF c
<1>2. Ahead(c, b) = Ahead(a, b) - k
  BY <1>1, AheadIs, SizeAssumption
<1> QED BY <1>2 DEF c

\* Counters a few sequences on do not meet the one they started from.
LEMMA FurtherOn ==
    ASSUME NEW a \in 0..SeqWrap - 1, NEW b \in 0..SeqWrap - 1, NEW c \in 0..SeqWrap - 1,
           Ahead(a, b) + Ahead(b, c) <= SeqWrap - 1
    PROVE  /\ Ahead(a, c) = Ahead(a, b) + Ahead(b, c)
           /\ Ahead(a, b) \in 0..SeqWrap - 1 /\ Ahead(b, c) \in 0..SeqWrap - 1
           /\ b # c => Ahead(b, c) > 0
           /\ b = c => Ahead(b, c) = 0
           /\ a = c => a = b
<1>1. Ahead(a, b) = IF a <= b THEN b - a ELSE b - a + SeqWrap  BY AheadIs
<1>2. Ahead(b, c) = IF b <= c THEN c - b ELSE c - b + SeqWrap  BY AheadIs
<1>3. Ahead(a, c) = IF a <= c THEN c - a ELSE c - a + SeqWrap  BY AheadIs
<1> QED BY <1>1, <1>2, <1>3, SizeAssumption

-----------------------------------------------------------------------------
(* The buffer.                                                             *)

Buffers == [Slots -> Frames \cup {NULL}]
WaitingIn(d) == {i \in Held(d) : "Output" \in d[i].flags}

\* From d to e no picture comes to wait, and those that do are what they were.
NoMoreWait(d, e) ==
    \A i \in WaitingIn(e) : i \in WaitingIn(d) /\ e[i].seq = d[i].seq /\ e[i].poc = d[i].poc

\* From d to e no picture loses its mark as a reference.
RefsKept(d, e) == \A i \in Held(d) : d[i].flags \cap RefFlags # {} =>
    /\ e[i] # NULL /\ e[i].seq = d[i].seq /\ e[i].poc = d[i].poc
    /\ e[i].flags \cap RefFlags # {}

LEMMA NoMoreWaitTrans ==
    ASSUME NEW d, NEW e, NEW f, NoMoreWait(d, e), NoMoreWait(e, f)
    PROVE  NoMoreWait(d, f)
BY DEF NoMoreWait

LEMMA RefsKeptTrans ==
    ASSUME NEW d, NEW e, NEW f, RefsKept(d, e), RefsKept(e, f)
    PROVE  RefsKept(d, f)
BY DEF RefsKept, Held

LEMMA FramesAre ==
    ASSUME NEW d \in Buffers, NEW i \in Slots
    PROVE  d[i] # NULL <=> d[i] \in Frames
BY NullAssumption DEF Buffers

\* A change of a frame's flags alone.
LEMMA Reflag ==
    ASSUME NEW f \in Frames, NEW flags \in SUBSET AllFlags
    PROVE  LET g == [f EXCEPT !.flags = flags]
           IN  /\ g \in Frames /\ g # NULL
               /\ g.seq = f.seq /\ g.poc = f.poc /\ g.flags = flags
BY NullAssumption DEF Frames

\* ff_hevc_unref_frame takes flags away, and frames that have no others.
LEMMA UnrefFrame ==
    ASSUME NEW d \in Buffers, NEW S, NEW flags, NEW e, e = Unref(d, S, flags)
    PROVE  /\ e \in Buffers
           /\ \A i \in Slots : e[i] # NULL =>
                /\ d[i] # NULL /\ e[i].seq = d[i].seq /\ e[i].poc = d[i].poc
                /\ i \in S => e[i].flags = d[i].flags \ flags
                /\ i \notin S => e[i].flags = d[i].flags
           /\ \A i \in Slots : d[i] # NULL => (e[i] = NULL <=> i \in S /\ d[i].flags \subseteq flags)
<1>1. \A j \in Slots : d[j] # NULL => d[j] \in Frames  BY FramesAre
<1>2. \A j \in Slots : d[j] # NULL => d[j].flags \subseteq AllFlags  BY <1>1 DEF Frames
<1>3. \A j \in Slots : e[j] = IF j \notin S \/ d[j] = NULL THEN d[j]
                              ELSE IF d[j].flags \subseteq flags THEN NULL
                              ELSE [d[j] EXCEPT !.flags = d[j].flags \ flags]
  BY DEF Unref
<1>4. \A j \in Slots : d[j] # NULL =>
        LET g == [d[j] EXCEPT !.flags = d[j].flags \ flags]
        IN  /\ g \in Frames /\ g # NULL
            /\ g.seq = d[j].seq /\ g.poc = d[j].poc /\ g.flags = d[j].flags \ flags
  <2> SUFFICES ASSUME NEW j \in Slots, d[j] # NULL
               PROVE  LET g == [d[j] EXCEPT !.flags = d[j].flags \ flags]
                      IN  /\ g \in Frames /\ g # NULL
                          /\ g.seq = d[j].seq /\ g.poc = d[j].poc /\ g.flags = d[j].flags \ flags
    OBVIOUS
  <2>1. d[j].flags \ flags \in SUBSET AllFlags /\ d[j] \in Frames  BY <1>1, <1>2
  <2> QED BY <2>1, Reflag
<1>5. \A j \in Slots : e[j] \in Frames \cup {NULL}  BY <1>1, <1>3, <1>4
<1>6. e \in Buffers  BY <1>5 DEF Buffers, Unref
<1>7. ASSUME NEW i \in Slots, e[i] # NULL
      PROVE  /\ d[i] # NULL /\ e[i].seq = d[i].seq /\ e[i].poc = d[i].poc
             /\ i \in S => e[i].flags = d[i].flags \ flags
             /\ i \notin S => e[i].flags = d[i].flags
  BY <1>3, <1>4, <1>7
<1>8. ASSUME NEW i \in Slots, d[i] # NULL
      PROVE  e[i] = NULL <=> i \in S /\ d[i].flags \subseteq flags
  BY <1>3, <1>4, <1>8
<1> QED BY <1>6, <1>7, <1>8

LEMMA UnrefWaits ==
    ASSUME NEW d \in Buffers, NEW S, NEW flags, NEW e, e = Unref(d, S, flags)
    PROVE  NoMoreWait(d, e)
<1>1. \A i \in Slots : e[i] # NULL =>
        /\ d[i] # NULL /\ e[i].seq = d[i].seq /\ e[i].poc = d[i].poc
        /\ i \in S => e[i].flags = d[i].flags \ flags
        /\ i \notin S => e[i].flags = d[i].flags
  BY UnrefFrame
<1> SUFFICES ASSUME NEW i \in WaitingIn(e)
             PROVE  i \in WaitingIn(d) /\ e[i].seq = d[i].seq /\ e[i].poc = d[i].poc
  BY DEF NoMoreWait
<1>2. i \in Slots /\ e[i] # NULL /\ "Output" \in e[i].flags  BY DEF WaitingIn, Held
<1>3. "Output" \in d[i].flags
  <2>1. CASE i \in S  BY <1>1, <1>2, <2>1
  <2>2. CASE i \notin S  BY <1>1, <1>2, <2>2
  <2> QED BY <2>1, <2>2
<1> QED BY <1>1, <1>2, <1>3 DEF WaitingIn, Held

LEMMA UnrefKeepsRefs ==
    ASSUME NEW d \in Buffers, NEW S, NEW flags, flags \cap RefFlags = {}, NEW e, e = Unref(d, S, flags)
    PROVE  RefsKept(d, e)
<1> SUFFICES ASSUME NEW i \in Slots, d[i] # NULL, d[i].flags \cap RefFlags # {}
             PROVE  /\ e[i] # NULL /\ e[i].seq = d[i].seq /\ e[i].poc = d[i].poc
                    /\ e[i].flags \cap RefFlags # {}
  BY DEF RefsKept, Held
<1>1. ~ (d[i].flags \subseteq flags)  OBVIOUS
<1>2. (d[i].flags \ flags) \cap RefFlags # {}  OBVIOUS
<1>3. e[i] # NULL  BY <1>1, UnrefFrame
<1>4. /\ e[i].seq = d[i].seq /\ e[i].poc = d[i].poc
      /\ i \in S => e[i].flags = d[i].flags \ flags
      /\ i \notin S => e[i].flags = d[i].flags
  BY <1>3, UnrefFrame
<1>5. e[i].flags \cap RefFlags # {}
  <2>1. CASE i \in S  BY <1>2, <1>4, <2>1
  <2>2. CASE i \notin S  BY <1>4, <2>2
  <2> QED BY <2>1, <2>2
<1> QED BY <1>3, <1>4, <1>5

\* ff_hevc_bump_frame marks pictures that wait, and nothing else.
LEMMA BumpMarks ==
    ASSUME NEW d \in Buffers, NEW p, NEW param, NEW e, e = Bump(d, p, param)
    PROVE  e \in Buffers /\ NoMoreWait(d, e) /\ RefsKept(d, e)
<1> DEFINE Marked(i) == [d[i] EXCEPT !.flags = d[i].flags \cup {"Bumping"}]
<1>1. \A i \in Slots : d[i] # NULL => d[i] \in Frames /\ d[i].flags \subseteq AllFlags
  BY FramesAre DEF Frames
<1>2. \A i \in Slots : d[i] # NULL =>
        /\ Marked(i) \in Frames /\ Marked(i) # NULL
        /\ Marked(i).seq = d[i].seq /\ Marked(i).poc = d[i].poc
        /\ Marked(i).flags = d[i].flags \cup {"Bumping"}
  <2> SUFFICES ASSUME NEW i \in Slots, d[i] # NULL
               PROVE  /\ Marked(i) \in Frames /\ Marked(i) # NULL
                      /\ Marked(i).seq = d[i].seq /\ Marked(i).poc = d[i].poc
                      /\ Marked(i).flags = d[i].flags \cup {"Bumping"}
    OBVIOUS
  <2>1. d[i].flags \cup {"Bumping"} \in SUBSET AllFlags  BY <1>1 DEF AllFlags
  <2> QED BY <1>1, <2>1, Reflag
<1>3. \A i \in Slots : e[i] = d[i] \/ (d[i] # NULL /\ "Output" \in d[i].flags /\ e[i] = Marked(i))
  <2> DEFINE full == {i \in Held(d) : d[i].flags # {} /\ d[i].seq = seqOutput /\ d[i].poc # p}
             plain == {d[i].poc : i \in {j \in full : d[j].flags = {"Output"}}}
             upTo == IF plain = {} THEN MaxPoc ELSE Least(plain)
  <2>1. CASE Cardinality(full) < param.buffering
    <3>1. e = d  BY <2>1 DEF Bump
    <3> QED BY <3>1
  <2>2. CASE ~ (Cardinality(full) < param.buffering)
    <3>1. e = [i \in Slots |->
            IF d[i] # NULL /\ "Output" \in d[i].flags /\ d[i].seq = seqOutput /\ d[i].poc <= upTo
            THEN [d[i] EXCEPT !.flags = @ \cup {"Bumping"}] ELSE d[i]]
      BY <2>2 DEF Bump
    <3> HIDE DEF upTo
    <3> QED BY <3>1
  <2> QED BY <2>1, <2>2
<1>4. e \in [Slots -> Frames \cup {NULL}]
  <2>1. e = [i \in Slots |-> e[i]]  BY DEF Bump, Buffers
  <2> HIDE DEF Marked
  <2>2. \A i \in Slots : e[i] \in Frames \cup {NULL}  BY <1>1, <1>2, <1>3
  <2> QED BY <2>1, <2>2
<1> HIDE DEF Marked
<1>5. \A i \in Slots : /\ e[i] # NULL <=> d[i] # NULL
                       /\ e[i] # NULL => /\ e[i].seq = d[i].seq /\ e[i].poc = d[i].poc
                                         /\ e[i].flags = d[i].flags
                                            \/ e[i].flags = d[i].flags \cup {"Bumping"}
  BY <1>2, <1>3
<1>6. NoMoreWait(d, e)  BY <1>5 DEF NoMoreWait, WaitingIn, Held
<1>7. RefsKept(d, e)  BY <1>5 DEF RefsKept, Held
<1> QED BY <1>4, <1>6, <1>7 DEF Buffers

\* ff_hevc_output_frame passes sequences nothing waits in any more, and hands
\* out the first of the pictures that wait in the one it comes to; from the
\* sequence being decoded, unless it is flushed, only if so many wait.
LEMMA OutputGoesOn ==
    ASSUME seqOutput \in 0..SeqWrap - 1, NEW d \in Buffers, NEW seq \in 0..SeqWrap - 1,
           NEW p, NEW discard, NEW param, NEW flush \in BOOLEAN,
           NEW o, o = OutputFrame(d, seq, p, discard, param, flush),
           \A i \in WaitingIn(d) : d[i].poc \in Pocs,
           \A i \in WaitingIn(d) : Ahead(seqOutput, d[i].seq) <= Ahead(seqOutput, seq),
           \A i, j \in WaitingIn(d) : d[i].seq = d[j].seq /\ d[i].poc = d[j].poc => i = j
    PROVE  /\ o.seqOutput \in 0..SeqWrap - 1
           /\ o.dpb \in Buffers /\ NoMoreWait(d, o.dpb) /\ RefsKept(d, o.dpb)
           /\ \A i \in WaitingIn(o.dpb) : Ahead(o.seqOutput, d[i].seq) <= Ahead(o.seqOutput, seq)
           /\ o.frame # NULL => \E i \in WaitingIn(d) :
                /\ o.frame = [seq |-> d[i].seq, poc |-> d[i].poc] /\ o.seqOutput = d[i].seq
                /\ \A j \in WaitingIn(o.dpb) : d[j].seq = o.seqOutput => d[j].poc > d[i].poc
                /\ ~flush /\ d[i].seq = seq => \E S \in SUBSET WaitingIn(d) :
                     /\ \A j \in S : d[j].seq = seq /\ d[j].poc >= d[i].poc
                     /\ i \in S /\ ~MayWait(S, param)
<1> DEFINE dropped == {i \in Held(d) : discard /\ "Bumping" \notin d[i].flags /\ d[i].poc # p}
           due == Due(d, dropped)
           distance(i) == Ahead(seqOutput, d[i].seq)
           last == Ahead(seqOutput, seq)
           dists == {last} \cup {distance(i) : i \in {j \in due : distance(j) <= last}}
           k == Least(dists)
           first == {i \in due : distance(i) = k}
           gone == {i \in dropped : distance(i) <= k}
           kept == Unref(d, gone, {"Output"})
           out == CHOOSE i \in first : \A j \in first : d[i].poc <= d[j].poc
           waits == first = {} \/ (~flush /\ k = last /\ MayWait(first, param))
<1>1. o = IF waits
          THEN [seqOutput |-> (seqOutput + k) % SeqWrap, dpb |-> kept, frame |-> NULL]
          ELSE [seqOutput |-> d[out].seq, dpb |-> TakeOut(kept, out),
                frame |-> [seq |-> d[out].seq, poc |-> d[out].poc]]
  BY DEF OutputFrame
<1>2. due = WaitingIn(d) \ dropped  BY DEF Due, WaitingIn
<1>3. \A i \in Held(d) : d[i].seq \in 0..SeqWrap - 1  BY FramesAre DEF Held, Frames
<1>4. WaitingIn(d) \subseteq Held(d) /\ Held(d) \subseteq Slots  BY DEF WaitingIn, Held
<1>5. last \in 0..SeqWrap - 1 /\ \A i \in WaitingIn(d) : distance(i) \in 0..last
  <2>1. last \in 0..SeqWrap - 1  BY AheadType
  <2>2. \A i \in WaitingIn(d) : distance(i) \in 0..SeqWrap - 1  BY <1>3, <1>4, AheadType
  <2>3. \A i \in WaitingIn(d) : distance(i) <= last  OBVIOUS
  <2> HIDE DEF last, distance
  <2> QED BY <2>1, <2>2, <2>3, SizeAssumption
<1> HIDE DEF dropped, due, distance, last
<1>6. k \in dists /\ \A x \in dists : k <= x
  <2>1. dists \in SUBSET Int /\ \A x \in dists : 0 <= x  BY <1>2, <1>5, SizeAssumption
  <2>2. dists # {}  OBVIOUS
  <2>3. 0 \in Int  OBVIOUS
  <2> HIDE DEF dists
  <2> QED BY <2>1, <2>2, <2>3, LeastInteger, Zenon
<1>7. k \in 0..last  BY <1>2, <1>5, <1>6, SizeAssumption
<1>8. \A i \in due : k <= distance(i)  BY <1>2, <1>5, <1>6
<1> HIDE DEF k, dists
<1>9. kept \in Buffers /\ NoMoreWait(d, kept) /\ RefsKept(d, kept)
  <2>1. {"Output"} \cap RefFlags = {}  BY DEF RefFlags
  <2> HIDE DEF gone
  <2> QED BY <2>1, UnrefFrame, UnrefWaits, UnrefKeepsRefs
<1>10. ASSUME NEW i \in WaitingIn(kept)
       PROVE  /\ i \in WaitingIn(d) /\ distance(i) \in k..last
              /\ distance(i) = k => i \in first
  <2>1. i \in WaitingIn(d)  BY <1>9 DEF NoMoreWait
  <2>2. i \in Slots /\ kept[i] # NULL /\ "Output" \in kept[i].flags  BY DEF WaitingIn, Held
  <2>3. i \notin gone
    <3>1. i \in gone => kept[i].flags = d[i].flags \ {"Output"}
      <4> HIDE DEF gone
      <4> DEFINE e == kept
      <4>1. e = Unref(d, gone, {"Output"})  OBVIOUS
      <4> HIDE DEF e
      <4> QED BY <2>2, <4>1, UnrefFrame
    <3> HIDE DEF gone
    <3> QED BY <2>2, <3>1
  <2>4. CASE i \in dropped
    <3>1. ~ (distance(i) <= k)  BY <2>3, <2>4
    <3> QED BY <1>5, <1>7, <2>1, <3>1, SizeAssumption
  <2>5. CASE i \notin dropped
    <3>1. i \in due  BY <1>2, <2>1, <2>5
    <3> QED BY <1>5, <1>7, <1>8, <2>1, <3>1, SizeAssumption
  <2> QED BY <2>4, <2>5
<1> DEFINE passed == (seqOutput + k) % SeqWrap
<1>11. passed \in 0..SeqWrap - 1 /\ Ahead(seqOutput, passed) = k
  <2>1. k \in 0..SeqWrap - 1  BY <1>5, <1>7, SizeAssumption
  <2> QED BY <2>1, NextSequence
<1>12. \A i \in WaitingIn(kept) : Ahead(passed, d[i].seq) <= Ahead(passed, seq)
  <2> SUFFICES ASSUME NEW i \in WaitingIn(kept)
               PROVE  Ahead(passed, d[i].seq) <= Ahead(passed, seq)
    OBVIOUS
  <2>1. i \in WaitingIn(d) /\ distance(i) \in k..last  BY <1>10
  <2>2. d[i].seq \in 0..SeqWrap - 1  BY <1>3, <1>4, <2>1
  <2>3. k \in 0..SeqWrap - 1  BY <1>5, <1>7, SizeAssumption
  <2>4. Ahead(passed, d[i].seq) = distance(i) - k
    <3>1. k <= Ahead(seqOutput, d[i].seq)  BY <2>1 DEF distance
    <3> QED BY <2>2, <2>3, <3>1, PassedOn DEF distance
  <2>5. Ahead(passed, seq) = last - k
    <3>1. k <= Ahead(seqOutput, seq)  BY <1>7 DEF last
    <3> QED BY <2>3, <3>1, PassedOn DEF last
  <2> HIDE DEF passed
  <2> QED BY <1>5, <1>7, <2>1, <2>4, <2>5, SizeAssumption
<1>13. CASE waits
  <2>1. o.seqOutput = passed /\ o.dpb = kept /\ o.frame = NULL  BY <1>1, <1>13
  <2> QED BY <1>9, <1>11, <1>12, <2>1
<1>14. CASE ~waits
  <2>1. /\ o.seqOutput = d[out].seq /\ o.dpb = TakeOut(kept, out)
        /\ o.frame = [seq |-> d[out].seq, poc |-> d[out].poc]
    BY <1>1, <1>14
  <2>2. out \in first /\ \A j \in first : d[out].poc <= d[j].poc
    <3>1. first # {} /\ \A i \in first : i \in WaitingIn(d)  BY <1>2, <1>14
    <3> DEFINE P == {d[i].poc : i \in first}
    <3>2. \E i \in first : \A j \in first : d[i].poc <= d[j].poc
      <4>1. P \in SUBSET Int /\ P # {} /\ \A x \in P : MinPoc <= x
        BY <3>1, BoundAssumption DEF Pocs
      <4>2. \E x \in P : \A y \in P : x <= y
        <5> HIDE DEF P
        <5> QED BY <4>1, LeastInteger, BoundAssumption
      <4> QED BY <4>2
    <3> HIDE DEF first
    <3> QED BY <3>2
  <2>3. out \in WaitingIn(d) /\ distance(out) = k  BY <1>2, <2>2
  <2> HIDE DEF out, waits
  <2>4. d[out].seq \in 0..SeqWrap - 1 /\ d[out].seq = passed
    <3>1. d[out].seq \in 0..SeqWrap - 1 /\ k \in 0..SeqWrap - 1
      BY <1>3, <1>4, <1>5, <1>7, <2>3, SizeAssumption
    <3> QED BY <2>3, <3>1, NextSequence DEF distance
  <2>5. o.dpb \in Buffers /\ NoMoreWait(kept, o.dpb) /\ RefsKept(kept, o.dpb)
    <3>1. {"Output", "Bumping"} \cap RefFlags = {}  BY DEF RefFlags
    <3>2. o.dpb = Unref(kept, {out}, {"Output", "Bumping"})  BY <2>1 DEF TakeOut
    <3> HIDE DEF kept
    <3> QED BY <1>9, <3>1, <3>2, UnrefFrame, UnrefWaits, UnrefKeepsRefs
  <2>6. NoMoreWait(d, o.dpb) /\ RefsKept(d, o.dpb)
    <3> HIDE DEF kept
    <3> QED BY <1>9, <2>5, NoMoreWaitTrans, RefsKeptTrans
  <2>7. out \notin WaitingIn(o.dpb)
    <3> SUFFICES ASSUME o.dpb[out] # NULL PROVE "Output" \notin o.dpb[out].flags
      BY DEF WaitingIn, Held
    <3>1. o.dpb = Unref(kept, {out}, {"Output", "Bumping"})  BY <2>1 DEF TakeOut
    <3>2. out \in Slots  BY <1>4, <2>3
    <3> DEFINE e == kept
    <3>3. e \in Buffers /\ o.dpb = Unref(e, {out}, {"Output", "Bumping"})  BY <1>9, <3>1
    <3> HIDE DEF e, kept
    <3>4. o.dpb[out].flags = e[out].flags \ {"Output", "Bumping"}
      BY <3>2, <3>3, UnrefFrame
    <3> QED BY <3>4
  <2>8. \A i \in WaitingIn(o.dpb) : i \in WaitingIn(kept)  BY <2>5 DEF NoMoreWait
  <2> HIDE DEF kept
  <2>9. \A i \in WaitingIn(o.dpb) : Ahead(o.seqOutput, d[i].seq) <= Ahead(o.seqOutput, seq)
    BY <1>12, <2>1, <2>4, <2>8
  <2>10. ASSUME NEW j \in WaitingIn(o.dpb), d[j].seq = o.seqOutput
         PROVE  d[j].poc > d[out].poc
    <3>1. j \in WaitingIn(kept) /\ j # out  BY <2>7, <2>8
    <3>2. distance(j) = k  BY <2>1, <2>3, <2>10 DEF distance
    <3>3. j \in first /\ j \in WaitingIn(d)  BY <1>10, <3>1, <3>2
    <3>4. d[out].poc <= d[j].poc /\ d[out].poc # d[j].poc  BY <2>1, <2>2, <2>3, <2>10, <3>1, <3>3
    <3>5. d[out].poc \in Int /\ d[j].poc \in Int  BY <2>3, <3>3, BoundAssumption DEF Pocs
    <3> QED BY <3>4, <3>5
  <2>11. ASSUME ~flush, d[out].seq = seq
         PROVE  \E S \in SUBSET WaitingIn(d) :
                  /\ \A j \in S : d[j].seq = seq /\ d[j].poc >= d[out].poc
                  /\ out \in S /\ ~MayWait(S, param)
    <3>1. k = last  BY <2>3, <2>11 DEF distance, last
    <3>2. ~MayWait(first, param)  BY <1>14, <2>11, <3>1 DEF waits
    <3>3. first \in SUBSET WaitingIn(d)  BY <1>2
    <3>4. ASSUME NEW j \in first PROVE d[j].seq = seq /\ d[j].poc >= d[out].poc
      <4>1. j \in WaitingIn(d) /\ distance(j) = k  BY <3>3
      <4>2. d[j].seq \in 0..SeqWrap - 1  BY <1>3, <1>4, <4>1
      <4>3. k \in 0..SeqWrap - 1  BY <1>5, <1>7, SizeAssumption
      <4>4. d[j].seq = passed  BY <4>1, <4>2, <4>3, NextSequence DEF distance
      <4>5. d[j].poc \in Int /\ d[out].poc \in Int  BY <2>3, <4>1, BoundAssumption DEF Pocs
      <4> QED BY <2>2, <2>4, <2>11, <4>4, <4>5
    <3> HIDE DEF first
    <3> QED BY <2>2, <3>2, <3>3, <3>4
  <2>12. o.seqOutput \in 0..SeqWrap - 1  BY <2>1, <2>4
  <2> HIDE DEF first
  <2>13. \E i \in WaitingIn(d) :
            /\ o.frame = [seq |-> d[i].seq, poc |-> d[i].poc] /\ o.seqOutput = d[i].seq
            /\ \A j \in WaitingIn(o.dpb) : d[j].seq = o.seqOutput => d[j].poc > d[i].poc
            /\ ~flush /\ d[i].seq = seq => \E S \in SUBSET WaitingIn(d) :
                 /\ \A j \in S : d[j].seq = seq /\ d[j].poc >= d[i].poc
                 /\ i \in S /\ ~MayWait(S, param)
    BY <2>1, <2>3, <2>10, <2>11
  <2> QED BY <2>5, <2>6, <2>9, <2>12, <2>13
<1> QED BY <1>13, <1>14

-----------------------------------------------------------------------------
(* References.                                                             *)

\* Entry e of a reference picture set names another picture of the sequence
\* that is marked, with the count asked for or its low bits.
Refers(d, e, cur, seq) ==
    /\ e.slot \in Slots /\ d[e.slot] # NULL /\ e.slot # cur
    /\ d[e.slot].seq = seq /\ d[e.slot].flags \cap RefFlags # {}
    /\ d[e.slot].poc = e.poc \/ d[e.slot].poc % MaxPocLsb = e.poc

References == Seq([slot : Slots, poc : Int, list : ListNames])
Candidates == [ok : BOOLEAN, d : Buffers, rps : References]

\* What add_candidate_ref keeps true of the buffer, that was new before, and of
\* the sets.
RefsGood(st, new, cur, seq) ==
    /\ st \in Candidates
    /\ NoMoreWait(new, st.d)
    /\ st.d[cur] # NULL /\ st.d[cur].seq = seq /\ st.d[cur].flags \cap RefFlags # {}
    /\ \A n \in 1..Len(st.rps) : Refers(st.d, st.rps[n], cur, seq)

LEMMA LeastSlot ==
    ASSUME NEW S \in SUBSET Slots, S # {}
    PROVE  Least(S) \in S
<1>1. S \in SUBSET Int /\ \A y \in S : 0 <= y  BY SizeAssumption DEF Slots
<1>2. 0 \in Int  OBVIOUS
<1> QED BY <1>1, <1>2, LeastInteger, Zenon

LEMMA FoundRef ==
    ASSUME NEW d, NEW seq, NEW p, FindRef(d, seq, p) # NULL
    PROVE  LET i == FindRef(d, seq, p)
           IN  /\ i \in Slots /\ d[i] # NULL /\ d[i].seq = seq
               /\ d[i].poc = p \/ d[i].poc % MaxPocLsb = p
<1> DEFINE here == {i \in Held(d) : d[i].seq = seq}
           low == {i \in here : d[i].poc % MaxPocLsb = p}
           full == {i \in here : d[i].poc = p}
<1>1. low \in SUBSET Slots /\ full \in SUBSET Slots  BY DEF Held
<1>2. FindRef(d, seq, p) = IF low # {} THEN Least(low) ELSE IF full # {} THEN Least(full) ELSE NULL
  BY DEF FindRef
<1>3. low # {} => Least(low) \in low
  <2> HIDE DEF low
  <2> QED BY <1>1, LeastSlot
<1>4. full # {} => Least(full) \in full
  <2> HIDE DEF full
  <2> QED BY <1>1, LeastSlot
<1> DEFINE i == FindRef(d, seq, p)
<1>5. i \in low \/ i \in full
  <2> HIDE DEF low, full
  <2> QED BY <1>2, <1>3, <1>4
<1> HIDE DEF i
<1>6. i \in Slots /\ d[i] # NULL /\ d[i].seq = seq /\ (d[i].poc = p \/ d[i].poc % MaxPocLsb = p)
  BY <1>5 DEF Held
<1> QED BY <1>6 DEF i

LEMMA MarkedRef ==
    ASSUME NEW f \in Frames, NEW flags \in SUBSET RefFlags, NEW g, g = MarkRef(f, flags)
    PROVE  /\ g \in Frames /\ g # NULL /\ g.seq = f.seq /\ g.poc = f.poc
           /\ "Output" \in g.flags <=> "Output" \in f.flags
           /\ flags \subseteq g.flags
<1>1. f.flags \in SUBSET AllFlags  BY DEF Frames
<1>2. (f.flags \ RefFlags) \cup flags \in SUBSET AllFlags  BY <1>1 DEF AllFlags
<1>3. g = [f EXCEPT !.flags = (f.flags \ RefFlags) \cup flags]  BY DEF MarkRef
<1>4. g \in Frames /\ g # NULL /\ g.seq = f.seq /\ g.poc = f.poc /\ g.flags = (f.flags \ RefFlags) \cup flags
  BY <1>2, <1>3, Reflag
<1>5. "Output" \notin RefFlags  BY DEF RefFlags
<1> QED BY <1>4, <1>5

\* add_candidate_ref marks a frame that was there, or one it makes.
LEMMA AddRefMarks ==
    ASSUME NEW new, NEW cur \in Slots, NEW seq \in 0..SeqWrap - 1, NEW p \in Int,
           NEW e \in [delta : Int, list : ListNames, flag : RefFlags],
           NEW st, RefsGood(st, new, cur, seq), NEW r \in AddRef(st, e, cur, seq, p)
    PROVE  RefsGood(r, new, cur, seq)
<1> DEFINE found == FindRef(st.d, seq, p)
           with(i, frame) == [ok |-> TRUE, d |-> [st.d EXCEPT ![i] = MarkRef(frame, {e.flag})],
                              rps |-> Append(st.rps, [slot |-> i, poc |-> p, list |-> e.list])]
           failed == [st EXCEPT !.ok = FALSE]
           made == [seq |-> seq, poc |-> p, flags |-> {}]
           spare == Least(Vacant(st.d))
<1>1. /\ st \in Candidates /\ NoMoreWait(new, st.d)
      /\ st.d[cur] # NULL /\ st.d[cur].seq = seq /\ st.d[cur].flags \cap RefFlags # {}
      /\ \A n \in 1..Len(st.rps) : Refers(st.d, st.rps[n], cur, seq)
  BY DEF RefsGood
<1>2. st.d \in Buffers /\ st.rps \in References  BY <1>1 DEF Candidates
<1>3. \/ r = st
      \/ r = failed
      \/ found # NULL /\ found # cur /\ r = with(found, st.d[found])
      \/ Vacant(st.d) # {} /\ r = with(spare, made)
  BY DEF AddRef
<1>4. CASE r = st  BY <1>4
<1>5. CASE r = failed
  <2>1. failed \in Candidates /\ failed.d = st.d /\ failed.rps = st.rps  BY <1>1 DEF Candidates
  <2> HIDE DEF failed
  <2> QED BY <1>1, <1>5, <2>1 DEF RefsGood
<1>6. ASSUME NEW i \in Slots, i # cur, NEW f \in Frames, f.seq = seq, f.poc = p \/ f.poc % MaxPocLsb = p,
             "Output" \in f.flags => i \in WaitingIn(st.d) /\ f.seq = st.d[i].seq /\ f.poc = st.d[i].poc,
             st.d[i] # NULL => f.poc = st.d[i].poc,
             r = with(i, f)
      PROVE  RefsGood(r, new, cur, seq)
  <2> DEFINE g == MarkRef(f, {e.flag})
             entry == [slot |-> i, poc |-> p, list |-> e.list]
  <2>1. /\ g \in Frames /\ g # NULL /\ g.seq = f.seq /\ g.poc = f.poc
        /\ "Output" \in g.flags <=> "Output" \in f.flags
        /\ e.flag \in g.flags /\ e.flag \in RefFlags
    <3>1. {e.flag} \in SUBSET RefFlags  OBVIOUS
    <3>2. \A h : h = g => /\ h \in Frames /\ h # NULL /\ h.seq = f.seq /\ h.poc = f.poc
                          /\ "Output" \in h.flags <=> "Output" \in f.flags
                          /\ {e.flag} \subseteq h.flags
      BY <3>1, MarkedRef
    <3> HIDE DEF g
    <3> QED BY <3>1, <3>2
  <2>2. entry \in [slot : Slots, poc : Int, list : ListNames] /\ entry.slot = i /\ entry.poc = p  OBVIOUS
  <2>3. r.ok = TRUE /\ r.d = [st.d EXCEPT ![i] = g] /\ r.rps = Append(st.rps, entry)
        /\ r = [ok |-> r.ok, d |-> r.d, rps |-> r.rps]
    BY <1>6
  <2> HIDE DEF g, entry, with
  <2>4. r.d \in Buffers
    BY <1>2, <2>1, <2>3 DEF Buffers
  <2>5. r.rps \in References /\ Len(r.rps) = Len(st.rps) + 1
        /\ \A n \in 1..Len(r.rps) : r.rps[n] = IF n = Len(r.rps) THEN entry ELSE st.rps[n]
    BY <1>2, <2>2, <2>3 DEF References
  <2>6. r \in Candidates  BY <2>3, <2>4, <2>5 DEF Candidates
  <2>7. r.d[i] = g /\ \A j \in Slots : j # i => r.d[j] = st.d[j]  BY <1>2, <2>3 DEF Buffers
  <2>8. NoMoreWait(new, r.d)
    <3>1. NoMoreWait(st.d, r.d)
      <4> SUFFICES ASSUME NEW j \in WaitingIn(r.d)
                   PROVE  j \in WaitingIn(st.d) /\ r.d[j].seq = st.d[j].seq /\ r.d[j].poc = st.d[j].poc
        BY DEF NoMoreWait
      <4>1. j \in Slots /\ r.d[j] # NULL /\ "Output" \in r.d[j].flags  BY DEF WaitingIn, Held
      <4>2. CASE j = i  BY <1>6, <2>1, <2>7, <4>1, <4>2
      <4>3. CASE j # i  BY <2>7, <4>1, <4>3 DEF WaitingIn, Held
      <4> QED BY <4>2, <4>3
    <3> QED BY <1>1, <3>1, NoMoreWaitTrans
  <2>9. r.d[cur] # NULL /\ r.d[cur].seq = seq /\ r.d[cur].flags \cap RefFlags # {}
    BY <1>1, <1>6, <2>7
  <2>10. ASSUME NEW n \in 1..Len(r.rps) PROVE Refers(r.d, r.rps[n], cur, seq)
    <3>1. CASE n = Len(r.rps)
      <4>1. r.rps[n] = entry  BY <2>5, <3>1
      <4>2. Refers(r.d, entry, cur, seq)  BY <1>6, <2>1, <2>2, <2>7 DEF Refers
      <4> QED BY <4>1, <4>2
    <3>2. CASE n # Len(r.rps)
      <4>1. n \in 1..Len(st.rps) /\ r.rps[n] = st.rps[n]
        <5>1. Len(st.rps) \in Nat  BY <1>2 DEF References
        <5> QED BY <2>5, <3>2, <5>1
      <4> DEFINE s == st.rps[n].slot
      <4>2. /\ s \in Slots /\ st.d[s] # NULL /\ s # cur
            /\ st.d[s].seq = seq /\ st.d[s].flags \cap RefFlags # {}
            /\ st.d[s].poc = st.rps[n].poc \/ st.d[s].poc % MaxPocLsb = st.rps[n].poc
        BY <1>1, <4>1 DEF Refers
      <4>3. CASE s = i
        <5>1. r.d[s] = g /\ g.seq = seq /\ g.poc = st.d[s].poc  BY <1>6, <2>1, <2>7, <4>2, <4>3
        <5> QED BY <2>1, <4>1, <4>2, <5>1 DEF Refers
      <4>4. CASE s # i
        <5>1. r.d[s] = st.d[s]  BY <2>7, <4>2, <4>4
        <5> QED BY <4>1, <4>2, <5>1 DEF Refers
      <4> QED BY <4>3, <4>4
    <3> QED BY <3>1, <3>2
  <2> QED BY <2>6, <2>8, <2>9, <2>10 DEF RefsGood
<1>7. CASE found # NULL /\ found # cur /\ r = with(found, st.d[found])
  <2>1. /\ found \in Slots /\ st.d[found] # NULL /\ st.d[found].seq = seq
        /\ st.d[found].poc = p \/ st.d[found].poc % MaxPocLsb = p
    BY <1>7, FoundRef
  <2>2. st.d[found] \in Frames  BY <1>2, <2>1, FramesAre
  <2>3. "Output" \in st.d[found].flags => found \in WaitingIn(st.d)  BY <2>1 DEF WaitingIn, Held
  <2> HIDE DEF found, with
  <2> QED BY <1>6, <1>7, <2>1, <2>2, <2>3
<1>8. CASE Vacant(st.d) # {} /\ r = with(spare, made)
  <2>1. spare \in Vacant(st.d)
    <3>1. Vacant(st.d) \in SUBSET Slots  BY DEF Vacant
    <3> QED BY <1>8, <3>1, LeastSlot
  <2>2. spare \in Slots /\ st.d[spare] = NULL /\ spare # cur  BY <1>1, <2>1 DEF Vacant, Held
  <2>3. made \in Frames /\ made.seq = seq /\ made.poc = p /\ made.flags = {}  BY DEF Frames
  <2> HIDE DEF spare, made, with
  <2> QED BY <1>6, <1>8, <2>2, <2>3
<1> QED BY <1>3, <1>4, <1>5, <1>7, <1>8

Adds(st, refs, n, cur, seq, p) == AddRef(st, refs[n], cur, seq, p + refs[n].delta)

InTurn(f, d, refs, cur, seq, p) ==
    /\ f[0] = {[ok |-> TRUE, d |-> Unmarked(d, cur), rps |-> <<>>]}
    /\ \A n \in 1..Len(refs) : \A st \in f[n] : \E s \in f[n - 1] : st \in Adds(s, refs, n, cur, seq, p)

\* AddRefs handles one reference after the other.
LEMMA AddRefsStep ==
    ASSUME NEW d, NEW refs, Len(refs) \in Nat, NEW cur, NEW seq, NEW p,
           NEW f, f = AddRefs(d, refs, cur, seq, p)
    PROVE  InTurn(f, d, refs, cur, seq, p)
<1> DEFINE More(S, n) == UNION {AddRef(st, refs[n], cur, seq, p + refs[n].delta) : st \in S}
           Start == {[ok |-> TRUE, d |-> Unmarked(d, cur), rps |-> <<>>]}
           Body(g, n) == IF n = 0 THEN Start ELSE More(g[n - 1], n)
           P(g) == g = [n \in 0..Len(refs) |-> Body(g, n)]
           E(m) == \E g : g = [n \in 0..m |-> Body(g, n)]
           G == {m \in Nat : E(m)}
<1>1. AddRefs(d, refs, cur, seq, p) = CHOOSE g : P(g)  BY DEF AddRefs
<1> HIDE DEF More, Start
<1>2. 0 \in G
  <2>1. [n \in {0} |-> Start] = [n \in 0..0 |-> Body([j \in {0} |-> Start], n)]  OBVIOUS
  <2> QED BY <2>1
<1>3. \A m \in Nat : m \in G => m + 1 \in G
  <2> SUFFICES ASSUME NEW m \in Nat, m \in G PROVE E(m + 1)
    <3> HIDE DEF E
    <3> QED OBVIOUS
  <2>1. PICK g : g = [n \in 0..m |-> Body(g, n)]  OBVIOUS
  <2> DEFINE h == [n \in 0..(m + 1) |-> IF n = m + 1 THEN More(g[m], m + 1) ELSE g[n]]
  <2>2. \A n \in 0..m : h[n] = g[n]  OBVIOUS
  <2>3. ASSUME NEW n \in 0..m PROVE h[n] = Body(h, n)
    <3>1. h[n] = Body(g, n)
      <4>1. h[n] = g[n]  BY <2>2
      <4> HIDE DEF h
      <4> QED BY <2>1, <4>1
    <3>2. CASE n = 0  BY <3>1, <3>2
    <3>3. CASE n # 0
      <4>1. h[n - 1] = g[n - 1]
        <5>1. n - 1 \in 0..m  BY <3>3
        <5> QED BY <2>2, <5>1
      <4> HIDE DEF h
      <4> QED BY <3>1, <4>1
    <3> QED BY <3>2, <3>3
  <2>4. h[m + 1] = Body(h, m + 1)
    <3>1. m + 1 # 0 /\ m + 1 - 1 = m /\ h[m] = g[m]  BY <2>2
    <3> QED BY <3>1
  <2>5. h = [n \in 0..(m + 1) |-> Body(h, n)]
    <3>1. h = [n \in 0..(m + 1) |-> h[n]]  OBVIOUS
    <3>2. \A n \in 0..(m + 1) : n \in 0..m \/ n = m + 1  OBVIOUS
    <3>3. \A n \in 0..(m + 1) : h[n] = Body(h, n)  BY <2>3, <2>4, <3>2, Zenon
    <3> HIDE DEF h
    <3> QED BY <3>1, <3>3, Zenon
  <2> HIDE DEF h
  <2> QED BY <2>5, Zenon
<1>4. \E g : P(g)
  <2>1. Nat \subseteq G
    <3> HIDE DEF G
    <3> QED BY <1>2, <1>3, SetInduction
  <2> QED BY <2>1
<1>5. P(f)
  <2> HIDE DEF P
  <2> QED BY <1>1, <1>4, Zenon
<1>6. \A n \in 0..Len(refs) : f[n] = Body(f, n)
  <2>1. f = [n \in 0..Len(refs) |-> Body(f, n)]  BY <1>5, Zenon
  <2> HIDE DEF Body
  <2> QED BY <2>1
<1>7. f[0] = Start /\ \A n \in 1..Len(refs) : f[n] = More(f[n - 1], n)  BY <1>6
<1>8. ASSUME NEW n \in 1..Len(refs), NEW st \in f[n]
      PROVE  \E s \in f[n - 1] : st \in Adds(s, refs, n, cur, seq, p)
  <2>1. st \in More(f[n - 1], n)  BY <1>7, <1>8
  <2> QED BY <2>1 DEF More, Adds
<1> QED BY <1>7, <1>8 DEF Start, InTurn

\* The marks of the other pictures go; that of the one decoded stays.
LEMMA UnmarkedGood ==
    ASSUME NEW d \in Buffers, NEW cur \in Slots, NEW seq,
           d[cur] # NULL, d[cur].seq = seq, d[cur].flags \cap RefFlags # {}
    PROVE  RefsGood([ok |-> TRUE, d |-> Unmarked(d, cur), rps |-> <<>>], d, cur, seq)
<1> DEFINE e == Unmarked(d, cur)
           st == [ok |-> TRUE, d |-> e, rps |-> <<>>]
<1>1. \A i \in Slots : e[i] = IF i = cur \/ d[i] = NULL THEN d[i] ELSE MarkRef(d[i], {})
  BY DEF Unmarked
<1>2. ASSUME NEW i \in Slots
      PROVE  /\ e[i] \in Frames \cup {NULL}
             /\ e[i] # NULL => /\ d[i] # NULL /\ e[i].seq = d[i].seq /\ e[i].poc = d[i].poc
                               /\ "Output" \in e[i].flags => "Output" \in d[i].flags
  <2>1. CASE i = cur \/ d[i] = NULL
    <3>1. e[i] = d[i]  BY <1>1, <2>1
    <3> HIDE DEF e
    <3> QED BY <3>1 DEF Buffers
  <2>2. CASE i # cur /\ d[i] # NULL
    <3>1. d[i] \in Frames  BY <2>2, FramesAre
    <3>2. e[i] = MarkRef(d[i], {}) /\ {} \in SUBSET RefFlags  BY <1>1, <2>2
    <3> HIDE DEF e
    <3> QED BY <2>2, <3>1, <3>2, MarkedRef
  <2> QED BY <2>1, <2>2
<1>3. e \in Buffers
  <2>1. e = [i \in Slots |-> e[i]]  BY DEF Unmarked
  <2> HIDE DEF e
  <2> QED BY <1>2, <2>1 DEF Buffers
<1>4. NoMoreWait(d, e)
  <2> HIDE DEF e
  <2> QED BY <1>2 DEF NoMoreWait, WaitingIn, Held
<1>5. e[cur] = d[cur]  BY <1>1
<1> HIDE DEF e
<1>6. st \in Candidates /\ st.d = e /\ st.rps = <<>> /\ Len(st.rps) = 0
  BY <1>3 DEF Candidates, References
<1> HIDE DEF st
<1>7. RefsGood(st, d, cur, seq)  BY <1>4, <1>5, <1>6 DEF RefsGood
<1> QED BY <1>7 DEF st, e

\* ff_hevc_frame_rps: the sets it makes name marked pictures of the sequence,
\* also once the frames nothing marks have gone.
LEMMA FrameRpsGood ==
    ASSUME NEW d \in Buffers, NEW cur \in Slots, NEW seq \in 0..SeqWrap - 1, NEW p \in Int,
           d[cur] # NULL, d[cur].seq = seq, d[cur].flags \cap RefFlags # {},
           NEW refs \in RefSets, NEW r \in FrameRps(d, refs, cur, seq, p)
    PROVE  RefsGood(r, d, cur, seq)
<1> DEFINE f == AddRefs(d, refs, cur, seq, p)
           G == {n \in Nat : n <= Len(refs) => \A st \in f[n] : RefsGood(st, d, cur, seq)}
<1> DEFINE T == [delta : Int, list : ListNames, flag : RefFlags]
<1>1. refs \in Seq(T)  BY RefsAssumption
<1> HIDE DEF T
<1>2. Len(refs) \in Nat /\ \A n \in 1..Len(refs) : refs[n] \in T  BY <1>1
<1>3. PICK s \in f[Len(refs)] : r = IF s.ok THEN [s EXCEPT !.d = Unref(s.d, Slots, {})] ELSE s
  BY DEF FrameRps
<1>4. f = AddRefs(d, refs, cur, seq, p)  OBVIOUS
<1>5. Len(refs) \in Nat  BY <1>2
<1> HIDE DEF f
<1>6. /\ f[0] = {[ok |-> TRUE, d |-> Unmarked(d, cur), rps |-> <<>>]}
      /\ \A n \in 1..Len(refs) : \A st \in f[n] : \E s0 \in f[n - 1] :
           st \in Adds(s0, refs, n, cur, seq, p)
  <2>1. InTurn(f, d, refs, cur, seq, p)  BY <1>4, <1>5, AddRefsStep
  <2> QED BY <2>1 DEF InTurn
<1>7. 0 \in G  BY <1>6, UnmarkedGood
<1>8. \A n \in Nat : n \in G => n + 1 \in G
  <2> SUFFICES ASSUME NEW n \in Nat, n \in G, n + 1 <= Len(refs), NEW st \in f[n + 1]
               PROVE  RefsGood(st, d, cur, seq)
    OBVIOUS
  <2>1. PICK m \in 1..Len(refs) : m = n + 1  BY <1>2
  <2>2. PICK s0 \in f[n] : st \in Adds(s0, refs, m, cur, seq, p)
    <3>1. m - 1 = n /\ st \in f[m]  BY <2>1
    <3> QED BY <1>6, <2>1, <3>1
  <2>3. refs[m] \in [delta : Int, list : ListNames, flag : RefFlags]  BY <1>2, <2>1 DEF T
  <2>4. p + refs[m].delta \in Int  BY <2>3
  <2>5. RefsGood(s0, d, cur, seq)  BY <1>2, <2>1
  <2> QED BY <2>2, <2>3, <2>4, <2>5, AddRefMarks DEF Adds
<1>9. RefsGood(s, d, cur, seq)
  <2>1. Nat \subseteq G
    <3> HIDE DEF G
    <3> QED BY <1>7, <1>8, SetInduction
  <2> QED BY <1>2, <1>3, <2>1
<1>10. CASE r = s  BY <1>9, <1>10
<1>11. CASE r = [s EXCEPT !.d = Unref(s.d, Slots, {})]
  <2> DEFINE e == Unref(s.d, Slots, {})
  <2>1. /\ s \in Candidates /\ NoMoreWait(d, s.d)
        /\ s.d[cur] # NULL /\ s.d[cur].seq = seq /\ s.d[cur].flags \cap RefFlags # {}
        /\ \A n \in 1..Len(s.rps) : Refers(s.d, s.rps[n], cur, seq)
    BY <1>9 DEF RefsGood
  <2>2. s.d \in Buffers  BY <2>1 DEF Candidates
  <2>3. e \in Buffers /\ NoMoreWait(s.d, e) /\ RefsKept(s.d, e)
    <3>1. {} \cap RefFlags = {}  OBVIOUS
    <3> QED BY <2>2, <3>1, UnrefFrame, UnrefWaits, UnrefKeepsRefs
  <2> HIDE DEF e
  <2>4. r \in Candidates /\ r.d = e /\ r.rps = s.rps
    <3>1. r = [s EXCEPT !.d = e]  BY <1>11 DEF e
    <3> QED BY <2>1, <2>3, <3>1 DEF Candidates
  <2>5. NoMoreWait(d, e)  BY <2>1, <2>3, NoMoreWaitTrans
  <2>6. e[cur] # NULL /\ e[cur].seq = seq /\ e[cur].flags \cap RefFlags # {}
    BY <2>1, <2>3 DEF RefsKept, Held
  <2>7. \A n \in 1..Len(r.rps) : Refers(e, r.rps[n], cur, seq)
    <3> SUFFICES ASSUME NEW n \in 1..Len(s.rps) PROVE Refers(e, s.rps[n], cur, seq)
      BY <2>4
    <3>1. Refers(s.d, s.rps[n], cur, seq)  BY <2>1
    <3> QED BY <2>3, <3>1 DEF Refers, RefsKept, Held
  <2> QED BY <2>4, <2>5, <2>6, <2>7 DEF RefsGood
<1> QED BY <1>3, <1>10, <1>11

-----------------------------------------------------------------------------
(* The pictures that wait.                                                 *)

\* What Buffered says of a buffer d, with sequence so being output, sd being
\* decoded, dec decoded in it, and last the one output last.
BufferOK(d, so, sd, dec, last) ==
    /\ \A i \in WaitingIn(d) : d[i].poc \in Pocs
    /\ \A i, j \in WaitingIn(d) : d[i].seq = d[j].seq /\ d[i].poc = d[j].poc => i = j
    /\ \A i \in WaitingIn(d) : Ahead(so, d[i].seq) <= Ahead(so, sd)
    /\ \A i \in WaitingIn(d) : d[i].seq = sd => d[i].poc \in dec
    /\ last # NULL => \A i \in WaitingIn(d) : d[i].seq = so => d[i].poc > last

\* What Settled says where it applies.
Settles(so, sd, dec, last, param) == last # NULL /\ so = sd =>
    /\ last \in dec
    /\ Cardinality({q \in dec : q >= last}) > param.reorder

LEMMA BufferedIs ==
    /\ Buffered <=> BufferOK(dpb, seqOutput, seqDecode, decoded, lastPoc)
    /\ Settled <=> (spsCurrent /\ ~draining => Settles(seqOutput, seqDecode, decoded, lastPoc, listSps))
<1>1. Waiting = WaitingIn(dpb)  BY DEF Waiting, WaitingIn
<1>2. Buffered <=> BufferOK(dpb, seqOutput, seqDecode, decoded, lastPoc)
  BY <1>1 DEF Buffered, Counted, Apart, NothingStranded, Recorded, Later, BufferOK
<1>3. Settled <=> (spsCurrent /\ ~draining => Settles(seqOutput, seqDecode, decoded, lastPoc, listSps))
  BY DEF Settled, Settles
<1> QED BY <1>2, <1>3

LEMMA FewerOK ==
    ASSUME NEW d, NEW e, NEW so, NEW sd, NEW dec, NEW last,
           BufferOK(d, so, sd, dec, last), NoMoreWait(d, e)
    PROVE  BufferOK(e, so, sd, dec, last)
BY DEF BufferOK, NoMoreWait

\* The decoder goes on to another sequence.
LEMMA SequenceOK ==
    ASSUME NEW d \in Buffers, NEW so \in 0..SeqWrap - 1, NEW sd \in 0..SeqWrap - 1,
           NEW dec, NEW last, NEW s \in 0..SeqWrap - 1,
           BufferOK(d, so, sd, dec, last), Ahead(so, sd) + Ahead(sd, s) <= SeqWrap - 1
    PROVE  BufferOK(d, so, s, IF s = sd THEN dec ELSE {}, last)
<1>1. CASE s = sd  BY <1>1
<1>2. CASE s # sd
  <2>1. /\ Ahead(so, s) = Ahead(so, sd) + Ahead(sd, s) /\ Ahead(sd, s) > 0
        /\ Ahead(so, sd) \in Int /\ Ahead(sd, s) \in Int
    BY <1>2, FurtherOn
  <2>2. ASSUME NEW i \in WaitingIn(d)
        PROVE  Ahead(so, d[i].seq) <= Ahead(so, s) /\ d[i].seq # s
    <3>1. d[i].seq \in 0..SeqWrap - 1  BY FramesAre DEF WaitingIn, Held, Frames
    <3>2. Ahead(so, d[i].seq) <= Ahead(so, sd)  BY DEF BufferOK
    <3>3. Ahead(so, d[i].seq) \in 0..SeqWrap - 1  BY <3>1, AheadType
    <3>4. Ahead(so, d[i].seq) < Ahead(so, s)  BY ONLY <2>1, <3>2, <3>3, SizeAssumption
    <3>5. d[i].seq # s
      <4> SUFFICES ASSUME d[i].seq = s PROVE FALSE  OBVIOUS
      <4>1. Ahead(so, s) < Ahead(so, s)  BY <3>4
      <4>2. Ahead(so, s) \in Int  BY <2>1
      <4> QED BY ONLY <4>1, <4>2
    <3> QED BY <2>1, <3>3, <3>4, <3>5
  <2> QED BY <1>2, <2>2 DEF BufferOK
<1> QED BY <1>1, <1>2

\* A picture comes to the sequence being decoded.
LEMMA NewRefOK ==
    ASSUME NEW d \in Buffers, NEW so \in 0..SeqWrap - 1, NEW sd \in 0..SeqWrap - 1,
           NEW dec, NEW last, NEW cur \in Slots, d[cur] = NULL, NEW p \in Pocs, NEW out \in BOOLEAN,
           BufferOK(d, so, sd, dec, last), ~Duplicate(d, sd, p),
           last # NULL /\ out /\ so = sd => p > last,
           NEW new, new = NewRef(d, cur, sd, p, out)
    PROVE  /\ new \in Buffers
           /\ BufferOK(new, so, sd, dec \cup IF out THEN {p} ELSE {}, last)
           /\ new[cur] # NULL /\ new[cur].seq = sd /\ new[cur].flags \cap RefFlags # {}
<1> DEFINE f == [seq |-> sd, poc |-> p, flags |-> IF out THEN {"Output", "ShortRef"} ELSE {"ShortRef"}]
           dec2 == dec \cup IF out THEN {p} ELSE {}
<1>1. /\ f \in Frames /\ f.seq = sd /\ f.poc = p /\ f.flags \cap RefFlags # {}
      /\ "Output" \in f.flags => out
  <2>1. p \in Int  BY BoundAssumption DEF Pocs
  <2>2. CASE out
    <3>1. {"Output", "ShortRef"} \in SUBSET AllFlags /\ {"Output", "ShortRef"} \cap RefFlags # {}
      BY DEF AllFlags, RefFlags
    <3> QED BY <2>1, <2>2, <3>1 DEF Frames
  <2>3. CASE ~out
    <3>1. {"ShortRef"} \in SUBSET AllFlags /\ {"ShortRef"} \cap RefFlags # {} /\ "Output" \notin {"ShortRef"}
      BY DEF AllFlags, RefFlags
    <3> QED BY <2>1, <2>3, <3>1 DEF Frames
  <2> QED BY <2>2, <2>3
<1>2. new = [d EXCEPT ![cur] = f]  BY DEF NewRef
<1> HIDE DEF f
<1>3. new \in Buffers  BY <1>1, <1>2 DEF Buffers
<1>4. new[cur] = f /\ \A i \in Slots : i # cur => new[i] = d[i]  BY <1>2 DEF Buffers
<1>5. f # NULL  BY <1>1, NullAssumption
<1>6. ASSUME NEW i \in WaitingIn(new)
      PROVE  \/ i = cur /\ out
             \/ i # cur /\ i \in WaitingIn(d) /\ new[i] = d[i]
  BY <1>1, <1>4 DEF WaitingIn, Held
<1>7. \A i \in WaitingIn(d) : ~ (d[i].seq = sd /\ d[i].poc = p)  BY DEF Duplicate, WaitingIn
<1>8. Ahead(so, sd) <= Ahead(so, sd)
  <2>1. Ahead(so, sd) \in 0..SeqWrap - 1  BY AheadType
  <2> QED BY <2>1, SizeAssumption
<1>9. out => p \in dec2  OBVIOUS
<1>10. dec \subseteq dec2  OBVIOUS
<1> HIDE DEF dec2
<1>11. \A i \in WaitingIn(new) : new[i].poc \in Pocs
  BY <1>1, <1>4, <1>6 DEF BufferOK
<1>12. \A i, j \in WaitingIn(new) : new[i].seq = new[j].seq /\ new[i].poc = new[j].poc => i = j
  <2> SUFFICES ASSUME NEW i \in WaitingIn(new), NEW j \in WaitingIn(new), i # j,
                      new[i].seq = new[j].seq, new[i].poc = new[j].poc
               PROVE  FALSE
    OBVIOUS
  <2>1. CASE i = cur  BY <1>1, <1>4, <1>6, <1>7, <2>1
  <2>2. CASE j = cur  BY <1>1, <1>4, <1>6, <1>7, <2>2
  <2>3. CASE i # cur /\ j # cur  BY <1>6, <2>3 DEF BufferOK
  <2> QED BY <2>1, <2>2, <2>3
<1>13. \A i \in WaitingIn(new) : Ahead(so, new[i].seq) <= Ahead(so, sd)
  BY <1>1, <1>4, <1>6, <1>8 DEF BufferOK
<1>14. \A i \in WaitingIn(new) : new[i].seq = sd => new[i].poc \in dec2
  BY <1>1, <1>4, <1>6, <1>9, <1>10 DEF BufferOK
<1>15. last # NULL => \A i \in WaitingIn(new) : new[i].seq = so => new[i].poc > last
  <2> SUFFICES ASSUME last # NULL, NEW i \in WaitingIn(new), new[i].seq = so PROVE new[i].poc > last
    OBVIOUS
  <2>1. CASE i = cur /\ out
    <3>1. so = sd /\ new[i].poc = p  BY <1>1, <1>4, <2>1
    <3> QED BY <2>1, <3>1
  <2>2. CASE i # cur /\ i \in WaitingIn(d) /\ new[i] = d[i]  BY <2>2 DEF BufferOK
  <2> QED BY <1>6, <2>1, <2>2
<1>16. BufferOK(new, so, sd, dec2, last)  BY <1>11, <1>12, <1>13, <1>14, <1>15 DEF BufferOK
<1> QED BY <1>1, <1>3, <1>4, <1>5, <1>16 DEF dec2

\* Pictures of a sequence that wait are decoded in it, and have each a count
\* of their own.
LEMMA CountsDecoded ==
    ASSUME NEW d \in Buffers, NEW so, NEW sd, NEW dec \in SUBSET Pocs, NEW last,
           BufferOK(d, so, sd, dec, last), NEW S \in SUBSET WaitingIn(d), NEW low \in Pocs,
           \A i \in S : d[i].seq = sd /\ d[i].poc >= low
    PROVE  /\ IsFiniteSet(S) /\ IsFiniteSet({q \in dec : q >= low})
           /\ Cardinality(S) <= Cardinality({q \in dec : q >= low})
<1> DEFINE T == {q \in dec : q >= low}
           f == [i \in S |-> d[i].poc]
<1>1. IsFiniteSet(S)
  <2>1. S \subseteq 1..NumSlots  BY DEF WaitingIn, Held, Slots
  <2>2. IsFiniteSet(1..NumSlots)  BY FS_Interval, SizeAssumption
  <2> QED BY <2>1, <2>2, FS_Subset
<1>2. IsFiniteSet(T)
  <2>1. IsFiniteSet(Pocs)  BY FS_Interval, BoundAssumption DEF Pocs
  <2>2. T \subseteq Pocs  OBVIOUS
  <2> HIDE DEF T
  <2> QED BY <2>1, <2>2, FS_Subset
<1>3. \A i \in S : d[i].poc \in T  BY DEF BufferOK
<1>4. f \in Injection(S, T)
  <2>1. f \in [S -> T]
    <3> HIDE DEF T
    <3> QED BY <1>3
  <2>2. \A i, j \in S : f[i] = f[j] => i = j  BY DEF BufferOK
  <2> HIDE DEF f, T
  <2> QED BY <2>1, <2>2 DEF Injection, IsInjective
<1>5. Cardinality(S) <= Cardinality(T)
  <2> HIDE DEF f, T
  <2> QED BY <1>1, <1>2, <1>4, FS_Injection
<1> QED BY <1>1, <1>2, <1>5

\* What ff_hevc_output_frame does to all this.
LEMMA OutputOK ==
    ASSUME seqOutput \in 0..SeqWrap - 1, NEW d \in Buffers, NEW sd \in 0..SeqWrap - 1,
           NEW p, NEW discard, NEW param, NEW flush \in BOOLEAN, NEW dec \in SUBSET Pocs,
           lastPoc \in Pocs \cup {NULL},
           BufferOK(d, seqOutput, sd, dec, lastPoc),
           NEW o, o = OutputFrame(d, sd, p, discard, param, flush), Output(o)
    PROVE  /\ dpb' \in Buffers /\ seqOutput' \in 0..SeqWrap - 1 /\ lastPoc' \in Pocs \cup {NULL}
           /\ RefsKept(d, dpb') /\ (o.frame = NULL \/ o.frame \in Outputs)
           /\ BufferOK(dpb', seqOutput', sd, dec, lastPoc')
           /\ lastPoc # NULL /\ seqOutput' = seqOutput => lastPoc' # NULL /\ lastPoc' >= lastPoc
           /\ ~flush /\ param # NULL /\ param.reorder \in Nat /\ Settles(seqOutput, sd, dec, lastPoc, param) =>
                Settles(seqOutput', sd, dec, lastPoc', param)
<1>1. /\ \A i \in WaitingIn(d) : d[i].poc \in Pocs
      /\ \A i \in WaitingIn(d) : Ahead(seqOutput, d[i].seq) <= Ahead(seqOutput, sd)
      /\ \A i, j \in WaitingIn(d) : d[i].seq = d[j].seq /\ d[i].poc = d[j].poc => i = j
  BY DEF BufferOK
<1>2. /\ o.seqOutput \in 0..SeqWrap - 1
      /\ o.dpb \in Buffers /\ NoMoreWait(d, o.dpb) /\ RefsKept(d, o.dpb)
      /\ \A i \in WaitingIn(o.dpb) : Ahead(o.seqOutput, d[i].seq) <= Ahead(o.seqOutput, sd)
      /\ o.frame # NULL => \E i \in WaitingIn(d) :
           /\ o.frame = [seq |-> d[i].seq, poc |-> d[i].poc] /\ o.seqOutput = d[i].seq
           /\ \A j \in WaitingIn(o.dpb) : d[j].seq = o.seqOutput => d[j].poc > d[i].poc
           /\ ~flush /\ d[i].seq = sd => \E S \in SUBSET WaitingIn(d) :
                /\ \A j \in S : d[j].seq = sd /\ d[j].poc >= d[i].poc
                /\ i \in S /\ ~MayWait(S, param)
  BY <1>1, OutputGoesOn
<1>3. /\ dpb' = o.dpb /\ seqOutput' = o.seqOutput
      /\ lastPoc' = IF o.frame # NULL THEN o.frame.poc
                    ELSE IF o.seqOutput # seqOutput THEN NULL ELSE lastPoc
  BY DEF Output
<1>4. \A i \in WaitingIn(dpb') : /\ i \in WaitingIn(d) /\ dpb'[i].seq = d[i].seq /\ dpb'[i].poc = d[i].poc
                                 /\ Ahead(seqOutput', dpb'[i].seq) <= Ahead(seqOutput', sd)
  BY <1>2, <1>3 DEF NoMoreWait
<1>5. ASSUME lastPoc' # NULL => \A i \in WaitingIn(dpb') : dpb'[i].seq = seqOutput' => dpb'[i].poc > lastPoc'
      PROVE  BufferOK(dpb', seqOutput', sd, dec, lastPoc')
  BY <1>4, <1>5 DEF BufferOK
<1>6. CASE o.frame = NULL
  <2>1. lastPoc' = NULL \/ (seqOutput' = seqOutput /\ lastPoc' = lastPoc)  BY <1>3, <1>6
  <2>2. lastPoc' # NULL => \A i \in WaitingIn(dpb') : dpb'[i].seq = seqOutput' => dpb'[i].poc > lastPoc'
    BY <1>4, <2>1 DEF BufferOK
  <2>3. lastPoc # NULL /\ seqOutput' = seqOutput => lastPoc' # NULL /\ lastPoc' >= lastPoc
    <3> SUFFICES ASSUME lastPoc # NULL, seqOutput' = seqOutput PROVE lastPoc' # NULL /\ lastPoc' >= lastPoc
      OBVIOUS
    <3>1. lastPoc' = lastPoc  BY <1>3, <1>6
    <3>2. lastPoc \in Int  BY BoundAssumption DEF Pocs
    <3> QED BY <3>1, <3>2
  <2>4. Settles(seqOutput, sd, dec, lastPoc, param) => Settles(seqOutput', sd, dec, lastPoc', param)
    BY <2>1 DEF Settles
  <2> QED BY <1>2, <1>3, <1>5, <1>6, <2>1, <2>2, <2>3, <2>4
<1>7. CASE o.frame # NULL
  <2>1. PICK i \in WaitingIn(d) :
           /\ o.frame = [seq |-> d[i].seq, poc |-> d[i].poc] /\ o.seqOutput = d[i].seq
           /\ \A j \in WaitingIn(o.dpb) : d[j].seq = o.seqOutput => d[j].poc > d[i].poc
           /\ ~flush /\ d[i].seq = sd => \E S \in SUBSET WaitingIn(d) :
                /\ \A j \in S : d[j].seq = sd /\ d[j].poc >= d[i].poc
                /\ i \in S /\ ~MayWait(S, param)
    BY <1>2, <1>7
  <2>2. lastPoc' = d[i].poc /\ seqOutput' = d[i].seq  BY <1>3, <1>7, <2>1
  <2>3. d[i].poc \in Pocs /\ d[i].poc # NULL /\ d[i].poc \in Int
    BY <1>1, NullAssumption, BoundAssumption DEF Pocs
  <2>4. \A j \in WaitingIn(dpb') : dpb'[j].seq = seqOutput' => dpb'[j].poc > lastPoc'
    BY <1>3, <1>4, <2>1, <2>2
  <2>5. o.frame \in Outputs
    <3>1. d[i].seq \in 0..SeqWrap - 1  BY <1>2, <2>1
    <3> QED BY <2>1, <2>3, <3>1 DEF Outputs
  <2>6. lastPoc # NULL /\ seqOutput' = seqOutput => lastPoc' # NULL /\ lastPoc' >= lastPoc
    <3> SUFFICES ASSUME lastPoc # NULL, seqOutput' = seqOutput PROVE lastPoc' # NULL /\ lastPoc' >= lastPoc
      OBVIOUS
    <3>1. d[i].poc > lastPoc  BY <2>2 DEF BufferOK
    <3>2. lastPoc \in Int  BY BoundAssumption DEF Pocs
    <3> QED BY <2>2, <2>3, <3>1, <3>2
  <2>7. ASSUME ~flush, param # NULL, param.reorder \in Nat, seqOutput' = sd
        PROVE  lastPoc' \in dec /\ Cardinality({q \in dec : q >= lastPoc'}) > param.reorder
    <3>1. PICK S \in SUBSET WaitingIn(d) :
             /\ \A j \in S : d[j].seq = sd /\ d[j].poc >= d[i].poc
             /\ i \in S /\ ~MayWait(S, param)
      BY <2>1, <2>2, <2>7
    <3>2. /\ IsFiniteSet(S) /\ IsFiniteSet({q \in dec : q >= d[i].poc})
          /\ Cardinality(S) <= Cardinality({q \in dec : q >= d[i].poc})
      <4>1. PICK low \in Pocs : low = d[i].poc  BY <2>3
      <4>2. \A j \in S : d[j].seq = sd /\ d[j].poc >= low  BY <3>1, <4>1
      <4>3. /\ IsFiniteSet(S) /\ IsFiniteSet({q \in dec : q >= low})
            /\ Cardinality(S) <= Cardinality({q \in dec : q >= low})
        BY <4>2, CountsDecoded
      <4> QED BY <4>1, <4>3
    <3>3. ~ (Cardinality(S) <= param.reorder)  BY <2>7, <3>1 DEF MayWait
    <3>4. Cardinality(S) \in Nat /\ Cardinality({q \in dec : q >= d[i].poc}) \in Nat
      BY <3>2, FS_CardinalityType
    <3>5. Cardinality({q \in dec : q >= d[i].poc}) > param.reorder
      BY ONLY <2>7, <3>2, <3>3, <3>4
    <3>6. d[i].poc \in dec  BY <2>2, <2>7 DEF BufferOK
    <3> QED BY <2>2, <3>5, <3>6
  <2>8. ~flush /\ param # NULL /\ param.reorder \in Nat => Settles(seqOutput', sd, dec, lastPoc', param)
    BY <2>7 DEF Settles
  <2> QED BY <1>2, <1>3, <1>5, <2>2, <2>3, <2>4, <2>5, <2>6, <2>8
<1> QED BY <1>6, <1>7

-----------------------------------------------------------------------------
(* The steps.                                                              *)

\* What a slice header does to the pictures before it has its place.
LEMMA HeaderOpens ==
    ASSUME TypeOK, NEW type \in NalTypes
    PROVE  /\ Opened(type) \in 0..SeqWrap - 1 /\ Activated(type) \in 0..SeqWrap - 1
           /\ ~spsCurrent => Activated(type) # seqDecode
           /\ OpenedDpb(type) \in Buffers /\ NoMoreWait(dpb, OpenedDpb(type))
           /\ ActivatedDpb(type) \in Buffers /\ NoMoreWait(dpb, ActivatedDpb(type))
           /\ OpenedRA(type) \in RAMin..RAMax /\ ActivatedRA(type) \in RAMin..RAMax
<1>1. dpb \in Buffers /\ seqDecode \in 0..SeqWrap - 1 /\ maxRA \in RAMin..RAMax
  BY DEF TypeOK, Buffers
<1>2. \A a \in 0..SeqWrap - 1 : (a + 1) % SeqWrap = IF a = SeqWrap - 1 THEN 0 ELSE a + 1
  <2> SUFFICES ASSUME NEW a \in 0..SeqWrap - 1
               PROVE  (a + 1) % SeqWrap = IF a = SeqWrap - 1 THEN 0 ELSE a + 1
    OBVIOUS
  <2>1. CASE a = SeqWrap - 1  BY <2>1, SizeAssumption
  <2>2. CASE a < SeqWrap - 1  BY <2>2, SizeAssumption
  <2> QED BY <2>1, <2>2, SizeAssumption
<1>3. Opened(type) = seqDecode \/ Opened(type) = (seqDecode + 1) % SeqWrap  BY DEF Opened
<1>4. Opened(type) \in 0..SeqWrap - 1  BY <1>1, <1>2, <1>3, SizeAssumption
<1>5. Activated(type) = Opened(type) \/ Activated(type) = (Opened(type) + 1) % SeqWrap  BY DEF Activated
<1>6. Activated(type) \in 0..SeqWrap - 1  BY <1>2, <1>4, <1>5, SizeAssumption
<1>7. ASSUME ~spsCurrent PROVE Activated(type) # seqDecode
  <2>1. Activated(type) = (Opened(type) + 1) % SeqWrap  BY <1>7 DEF Activated
  <2> QED BY <1>1, <1>2, <1>3, <1>4, <2>1, SizeAssumption
<1>8. \A d \in Buffers : ClearRefs(d) \in Buffers /\ NoMoreWait(d, ClearRefs(d))
  BY UnrefFrame, UnrefWaits DEF ClearRefs
<1>9. NoMoreWait(dpb, dpb)  BY DEF NoMoreWait
<1>10. OpenedDpb(type) \in Buffers /\ NoMoreWait(dpb, OpenedDpb(type))
  BY <1>1, <1>8, <1>9 DEF OpenedDpb
<1>11. ActivatedDpb(type) \in Buffers /\ NoMoreWait(dpb, ActivatedDpb(type))
  <2>1. ActivatedDpb(type) = OpenedDpb(type) \/ ActivatedDpb(type) = ClearRefs(OpenedDpb(type))
    BY DEF ActivatedDpb
  <2> QED BY <1>8, <1>10, <2>1, NoMoreWaitTrans
<1>12. RAMax \in RAMin..RAMax  BY BoundAssumption DEF RAMax, RAMin
<1>13. OpenedRA(type) \in RAMin..RAMax  BY <1>1, <1>12 DEF OpenedRA
<1>14. ActivatedRA(type) \in RAMin..RAMax  BY <1>12, <1>13 DEF ActivatedRA
<1> QED BY <1>4, <1>6, <1>7, <1>10, <1>11, <1>13, <1>14

\* Another sequence begins within the bound.
LEMMA WithinOK ==
    ASSUME IInv, NEW s \in 0..SeqWrap - 1, Within(s)
    PROVE  /\ BufferOK(dpb, seqOutput, s, DecodedIn(s), lastPoc)
           /\ s # seqDecode => s # seqOutput
           /\ DecodedIn(s) \in SUBSET Pocs
<1>1. /\ dpb \in Buffers /\ seqDecode \in 0..SeqWrap - 1 /\ seqOutput \in 0..SeqWrap - 1
      /\ decoded \subseteq Pocs
  BY DEF IInv, TypeOK, Buffers
<1>2. BufferOK(dpb, seqOutput, seqDecode, decoded, lastPoc)  BY BufferedIs DEF IInv
<1>3. Ahead(seqOutput, seqDecode) + Ahead(seqDecode, s) <= SeqWrap - 1
  <2>1. Ahead(seqOutput, seqDecode) \in 0..SeqWrap - 1 /\ Ahead(seqDecode, s) \in 0..SeqWrap - 1
    BY <1>1, AheadType
  <2>2. CASE Held(dpb) = {}  BY <2>2 DEF Within
  <2>3. CASE Held(dpb) # {}  BY <2>1, <2>3, BoundAssumption, SizeAssumption DEF Within
  <2> QED BY <2>2, <2>3
<1>4. BufferOK(dpb, seqOutput, s, IF s = seqDecode THEN decoded ELSE {}, lastPoc)
  BY <1>1, <1>2, <1>3, SequenceOK
<1>5. s = seqOutput => seqOutput = seqDecode
  BY <1>1, <1>3, FurtherOn
<1> QED BY <1>1, <1>4, <1>5 DEF DecodedIn

\* A step that only begins a sequence, and forgets marks.
LEMMA MovesOn ==
    ASSUME IInv, NEW s \in 0..SeqWrap - 1, Within(s), seqDecode' = s, decoded' = DecodedIn(s),
           NoMoreWait(dpb, dpb'), UNCHANGED <<seqOutput, lastPoc, listSps, draining>>,
           spsCurrent' /\ s = seqDecode => spsCurrent
    PROVE  Buffered' /\ Settled'
<1>1. /\ BufferOK(dpb, seqOutput, s, DecodedIn(s), lastPoc)
      /\ s # seqDecode => s # seqOutput
  BY WithinOK
<1>2. BufferOK(dpb', seqOutput', seqDecode', decoded', lastPoc')
  BY <1>1, FewerOK
<1>3. (Buffered <=> BufferOK(dpb, seqOutput, seqDecode, decoded, lastPoc))'  BY BufferedIs, PTL
<1>4. Buffered'  BY <1>2, <1>3
<1>5. Settled'
  <2>1. Settled  BY DEF IInv
  <2>2. CASE s = seqDecode
    <3>1. decoded' = decoded /\ seqDecode' = seqDecode  BY <2>2 DEF DecodedIn
    <3> QED BY <2>1, <2>2, <3>1 DEF Settled
  <2>3. CASE s # seqDecode
    <3>1. seqOutput' # seqDecode'  BY <1>1, <2>3
    <3> QED BY <3>1 DEF Settled
  <2> QED BY <2>2, <2>3
<1> QED BY <1>4, <1>5

\* The packet is given up or ends.
LEMMA Returned ==
    ASSUME NEW S \in SUBSET BOOLEAN, Return(S)
    PROVE  /\ packet' = "none" /\ output' = NULL /\ ref' = NULL /\ firstType' = NULL
           /\ rps' \in Seq([slot : Slots, poc : Int, list : ListNames])
           /\ eos' \in BOOLEAN
           /\ ReferencesLive'
<1>1. packet' = "none" /\ output' = NULL /\ ref' = NULL /\ firstType' = NULL /\ rps' = <<>> /\ eos' \in S
  BY DEF Return
<1>2. ReferencesLive'  BY <1>1 DEF ReferencesLive
<1> QED BY <1>1, <1>2

\* A step that reads a header, begins a sequence perhaps, and leaves no
\* picture to decode.
LEMMA HeaderStep ==
    ASSUME IInv, packet # "none", NEW s \in 0..SeqWrap - 1, Within(s), seqDecode' = s,
           decoded' = DecodedIn(s), dpb' \in Buffers, NoMoreWait(dpb, dpb'),
           UNCHANGED <<seqOutput, lastPoc, listSps, pps, draining>>,
           maxRA' \in RAMin..RAMax, noOutput' \in BOOLEAN, poc' \in Pocs, pocTid0' \in Pocs,
           sps' \in SPSs \cup {NULL}, spsCurrent' \in BOOLEAN, spsCurrent' => listSps # NULL,
           spsCurrent' /\ s = seqDecode => spsCurrent,
           packet' \in {"none", "params", "slices"}, output' \in Outputs \cup {NULL}, ref' = NULL,
           firstType' \in NalTypes \cup {NULL}, eos' \in BOOLEAN,
           rps' \in Seq([slot : Slots, poc : Int, list : ListNames])
    PROVE  IInv'
<1>1. Buffered' /\ Settled'  BY MovesOn
<1>2. DecodedIn(s) \in SUBSET Pocs  BY WithinOK
<1>3. TypeOK'
  <2> DEFINE T == [slot : Slots, poc : Int, list : ListNames]
  <2>1. rps' \in Seq(T)  OBVIOUS
  <2>2. TypeOK  BY DEF IInv
  <2> HIDE DEF T
  <2>3. /\ seqOutput' \in 0..SeqWrap - 1 /\ lastPoc' \in Pocs \cup {NULL}
        /\ listSps' \in SPSs \cup {NULL} /\ pps' \in BOOLEAN /\ draining' \in BOOLEAN
    BY <2>2 DEF TypeOK
  <2>4. dpb' \in [Slots -> Frames \cup {NULL}] /\ decoded' \subseteq Pocs  BY <1>2 DEF Buffers
  <2> QED BY <2>1, <2>3, <2>4 DEF TypeOK, T
<1>4. Control'
  <2>1. Control  BY DEF IInv
  <2> QED BY <2>1 DEF Control
<1>5. ReferencesLive'  BY DEF ReferencesLive
<1> QED BY <1>1, <1>3, <1>4, <1>5 DEF IInv

LEMMA UnopenedStep ==
    ASSUME IInv, packet = "params", NEW type \in NalTypes, NEW discard \in BOOLEAN,
           SliceWithoutPps(type, discard) \/ ActivationFails(type, discard)
    PROVE  IInv'
<1>1. TypeOK /\ Control  BY DEF IInv
<1>2. /\ Opened(type) \in 0..SeqWrap - 1 /\ OpenedRA(type) \in RAMin..RAMax
      /\ OpenedDpb(type) \in Buffers /\ NoMoreWait(dpb, OpenedDpb(type))
      /\ ActivatedDpb(type) \in Buffers /\ NoMoreWait(dpb, ActivatedDpb(type))
  BY <1>1, HeaderOpens
<1>3. /\ Within(Opened(type)) /\ seqDecode' = Opened(type) /\ decoded' = DecodedIn(seqDecode')
      /\ dpb' \in {OpenedDpb(type), ActivatedDpb(type)} /\ maxRA' = OpenedRA(type) /\ GiveUp
      /\ UNCHANGED <<seqOutput, poc, pocTid0, lastPoc, listSps, spsCurrent, pps, draining>>
      /\ sps' \in {sps, NULL}
  BY DEF SliceWithoutPps, ActivationFails
<1>4. noOutput' \in BOOLEAN  BY DEF SliceWithoutPps, ActivationFails, Discards
<1>5. /\ packet' = "none" /\ output' = NULL /\ ref' = NULL /\ firstType' = NULL
      /\ rps' \in Seq([slot : Slots, poc : Int, list : ListNames]) /\ eos' \in BOOLEAN
  BY <1>3, Returned, TypesAssumption DEF GiveUp
<1>6. /\ poc' \in Pocs /\ pocTid0' \in Pocs /\ sps' \in SPSs \cup {NULL} /\ spsCurrent' \in BOOLEAN
      /\ spsCurrent' => listSps # NULL
  BY <1>1, <1>3 DEF TypeOK, Control
<1>7. decoded' = DecodedIn(Opened(type))  BY <1>3
<1>8. packet # "none"  OBVIOUS
<1>9. dpb' \in Buffers /\ NoMoreWait(dpb, dpb')  BY <1>2, <1>3
<1> DEFINE T == [slot : Slots, poc : Int, list : ListNames]
<1> HIDE DEF T
<1> QED BY <1>2, <1>3, <1>4, <1>5, <1>6, <1>7, <1>8, <1>9, HeaderStep

\* The header is refused once its parameter sets are active.
LEMMA ActivatedStep ==
    ASSUME IInv, packet = "params", NEW type \in NalTypes, NEW discard \in BOOLEAN,
           Activate(type, discard), dpb' = ActivatedDpb(type), decoded' = DecodedIn(seqDecode'),
           maxRA' \in RAMin..RAMax, poc' \in Pocs, pocTid0' \in Pocs,
           UNCHANGED <<seqOutput, lastPoc>>,
           GiveUp \/ (packet' = "slices" /\ UNCHANGED <<ref, rps, firstType, eos, output>>)
    PROVE  IInv'
<1>1. TypeOK /\ Control  BY DEF IInv
<1>2. /\ Activated(type) \in 0..SeqWrap - 1
      /\ ~spsCurrent => Activated(type) # seqDecode
      /\ ActivatedDpb(type) \in Buffers /\ NoMoreWait(dpb, ActivatedDpb(type))
  BY <1>1, HeaderOpens
<1>3. /\ pps /\ Within(Activated(type)) /\ seqDecode' = Activated(type)
      /\ sps' = listSps /\ spsCurrent' = TRUE /\ UNCHANGED <<listSps, pps, draining>>
  BY DEF Activate
<1>4. noOutput' \in BOOLEAN  BY DEF Activate, Discards
<1> DEFINE T == [slot : Slots, poc : Int, list : ListNames]
<1>5. /\ packet' \in {"none", "params", "slices"} /\ output' \in Outputs \cup {NULL} /\ ref' = NULL
      /\ firstType' \in NalTypes \cup {NULL} /\ eos' \in BOOLEAN /\ rps' \in Seq(T)
  <2>1. CASE GiveUp
    <3>1. /\ packet' = "none" /\ output' = NULL /\ ref' = NULL /\ firstType' = NULL
          /\ rps' \in Seq(T) /\ eos' \in BOOLEAN
      BY <2>1, Returned, TypesAssumption DEF GiveUp
    <3> HIDE DEF T
    <3> QED BY <3>1
  <2>2. CASE packet' = "slices" /\ UNCHANGED <<ref, rps, firstType, eos, output>>
    <3>1. ref = NULL  BY <1>1 DEF Control
    <3>2. rps \in Seq(T)  BY <1>1 DEF TypeOK
    <3>3. output \in Outputs \cup {NULL} /\ firstType \in NalTypes \cup {NULL} /\ eos \in BOOLEAN
      BY <1>1 DEF TypeOK
    <3> HIDE DEF T
    <3> QED BY <2>2, <3>1, <3>2, <3>3
  <2> QED BY <2>1, <2>2
<1>6. sps' \in SPSs \cup {NULL} /\ spsCurrent' \in BOOLEAN /\ listSps # NULL
  BY <1>1, <1>3 DEF TypeOK, Control
<1>7. decoded' = DecodedIn(Activated(type))  BY <1>3
<1>8. packet # "none"  OBVIOUS
<1>9. dpb' \in Buffers /\ NoMoreWait(dpb, dpb')  BY <1>2
<1>10. spsCurrent' /\ Activated(type) = seqDecode => spsCurrent  BY <1>2, Zenon
<1>11. rps' \in Seq([slot : Slots, poc : Int, list : ListNames])  BY <1>5
<1> HIDE DEF T
<1> QED BY <1>2, <1>3, <1>4, <1>5, <1>6, <1>7, <1>8, <1>9, <1>10, <1>11, HeaderStep

LEMMA ReachedType ==
    ASSUME NEW type, NEW p \in Pocs, NEW ra \in RAMin..RAMax
    PROVE  ReachedRA(type, p, ra) \in RAMin..RAMax
<1>1. p \in RAMin..RAMax /\ RAMin \in RAMin..RAMax
  BY BoundAssumption DEF Pocs, RAMin, RAMax
<1> QED BY <1>1 DEF ReachedRA

LEMMA PlaceType ==
    ASSUME TypeOK, NEW type, NEW discard, NEW p \in Pocs, Place(type, discard, p)
    PROVE  poc' \in Pocs /\ pocTid0' \in Pocs /\ Activate(type, discard)
BY DEF Place, TypeOK

LEMMA RefusedStep ==
    ASSUME IInv, packet = "params", NEW type \in NalTypes, NEW discard \in BOOLEAN, NEW p \in Pocs,
           \/ SliceBroken(type, discard) \/ PlacedSliceBroken(type, discard, p)
           \/ SkipSlice(type, discard, p) \/ NoNewRef(type, discard, p)
    PROVE  IInv'
<1>1. TypeOK  BY DEF IInv
<1>2. ActivatedRA(type) \in RAMin..RAMax  BY <1>1, HeaderOpens
<1>3. ReachedRA(type, p, ActivatedRA(type)) \in RAMin..RAMax  BY <1>2, ReachedType
<1>4. CASE SliceBroken(type, discard)
  <2>1. poc' \in Pocs /\ pocTid0' \in Pocs  BY <1>1, <1>4 DEF SliceBroken, TypeOK
  <2> QED BY <1>2, <1>4, <2>1, ActivatedStep DEF SliceBroken, Broken
<1>5. CASE PlacedSliceBroken(type, discard, p)
  <2>1. poc' \in Pocs /\ pocTid0' \in Pocs /\ Activate(type, discard)
    BY <1>1, <1>5, PlaceType DEF PlacedSliceBroken
  <2> QED BY <1>2, <1>5, <2>1, ActivatedStep DEF PlacedSliceBroken, Broken
<1>6. CASE SkipSlice(type, discard, p)
  <2>1. poc' \in Pocs /\ pocTid0' \in Pocs /\ Activate(type, discard)
    BY <1>1, <1>6, PlaceType DEF SkipSlice
  <2> QED BY <1>2, <1>6, <2>1, ActivatedStep DEF SkipSlice
<1>7. CASE NoNewRef(type, discard, p)
  <2>1. poc' \in Pocs /\ pocTid0' \in Pocs /\ Activate(type, discard)
    BY <1>1, <1>7, PlaceType DEF NoNewRef
  <2> QED BY <1>3, <1>7, <2>1, ActivatedStep DEF NoNewRef
<1> QED BY <1>4, <1>5, <1>6, <1>7

\* The end of a sequence begins the next.
LEMMA EndSequenceStep ==
    ASSUME IInv, EndSequence
    PROVE  IInv'
<1> DEFINE s == (seqDecode + 1) % SeqWrap
           T == [slot : Slots, poc : Int, list : ListNames]
<1>1. TypeOK /\ Control  BY DEF IInv
<1>2. seqDecode \in 0..SeqWrap - 1  BY <1>1 DEF TypeOK
<1>3. s \in 0..SeqWrap - 1 /\ s # seqDecode
  <2>1. CASE seqDecode = SeqWrap - 1  BY <1>2, <2>1, SizeAssumption
  <2>2. CASE seqDecode < SeqWrap - 1  BY <1>2, <2>2, SizeAssumption
  <2> QED BY <1>2, <2>1, <2>2, SizeAssumption
<1> HIDE DEF s
<1>4. /\ packet # "none" /\ Within(s) /\ seqDecode' = s /\ decoded' = {} /\ maxRA' = RAMax
      /\ Return({TRUE})
      /\ UNCHANGED <<dpb, seqOutput, poc, pocTid0, noOutput, listSps, sps, spsCurrent, pps, draining, lastPoc>>
  BY DEF EndSequence, s
<1>5. decoded' = DecodedIn(s)  BY <1>3, <1>4 DEF DecodedIn
<1>6. /\ packet' = "none" /\ output' = NULL /\ ref' = NULL /\ firstType' = NULL
      /\ rps' \in Seq(T) /\ eos' \in BOOLEAN
  BY <1>4, Returned
<1> HIDE DEF T
<1>7. dpb' \in Buffers /\ NoMoreWait(dpb, dpb')
  BY <1>1, <1>4 DEF TypeOK, Buffers, NoMoreWait
<1>8. /\ maxRA' \in RAMin..RAMax /\ noOutput' \in BOOLEAN /\ poc' \in Pocs /\ pocTid0' \in Pocs
      /\ sps' \in SPSs \cup {NULL} /\ spsCurrent' \in BOOLEAN
      /\ spsCurrent' => listSps # NULL
      /\ spsCurrent' /\ s = seqDecode => spsCurrent
  <2>1. RAMax \in RAMin..RAMax  BY BoundAssumption DEF RAMax, RAMin
  <2> QED BY <1>1, <1>3, <1>4, <2>1 DEF TypeOK, Control
<1>9. rps' \in Seq([slot : Slots, poc : Int, list : ListNames])  BY <1>6 DEF T
<1> QED BY <1>3, <1>4, <1>5, <1>6, <1>7, <1>8, <1>9, HeaderStep

\* A step that leaves the pictures, and what was decoded, as they are.
LEMMA QuietStep ==
    ASSUME IInv, TypeOK', Control',
           UNCHANGED <<dpb, seqDecode, seqOutput, decoded, lastPoc>>,
           UNCHANGED <<listSps, spsCurrent, draining>> \/ spsCurrent' = FALSE,
           UNCHANGED <<ref, rps>> \/ ref' = NULL
    PROVE  IInv'
<1>1. Buffered /\ Settled /\ ReferencesLive  BY DEF IInv
<1>2. Buffered'
  BY <1>1 DEF Buffered, Counted, Apart, NothingStranded, Recorded, Later, Waiting, Held
<1>3. Settled'  BY <1>1 DEF Settled
<1>4. ReferencesLive'
  BY <1>1 DEF ReferencesLive, Usable, Near, Held
<1> QED BY <1>2, <1>3, <1>4 DEF IInv

LEMMA PacketStep ==
    ASSUME IInv, StartPacket \/ EndPacket
    PROVE  IInv'
<1> DEFINE T == [slot : Slots, poc : Int, list : ListNames]
<1>1. TypeOK /\ Control  BY DEF IInv
<1>2. /\ UNCHANGED <<dpb, seqDecode, seqOutput, poc, pocTid0, maxRA, noOutput, listSps, sps, spsCurrent,
                     pps, draining, decoded, lastPoc>>
      /\ \/ Return(UnreadEos) \/ Return({FALSE})
         \/ ~draining /\ packet = "none" /\ packet' = "params" /\ UNCHANGED <<ref, rps, firstType, output, eos>>
  BY DEF StartPacket, EndPacket, GiveUp
<1>3. CASE Return(UnreadEos) \/ Return({FALSE})
  <2>1. /\ packet' = "none" /\ output' = NULL /\ ref' = NULL /\ firstType' = NULL
        /\ rps' \in Seq(T) /\ eos' \in BOOLEAN
    BY <1>3, Returned, TypesAssumption
  <2> HIDE DEF T
  <2>2. TypeOK'  BY <1>1, <1>2, <2>1 DEF TypeOK, T
  <2>3. Control'  BY <1>1, <1>2, <2>1 DEF Control
  <2> QED BY <1>2, <2>1, <2>2, <2>3, QuietStep
<1>4. CASE ~draining /\ packet = "none" /\ packet' = "params" /\ UNCHANGED <<ref, rps, firstType, output, eos>>
  <2>1. TypeOK'
    <3>1. rps \in Seq(T)  BY <1>1 DEF TypeOK
    <3> HIDE DEF T
    <3> QED BY <1>1, <1>2, <1>4, <3>1 DEF TypeOK, T
  <2>2. Control'  BY <1>1, <1>2, <1>4 DEF Control
  <2> QED BY <1>2, <1>4, <2>1, <2>2, QuietStep
<1> QED BY <1>2, <1>3, <1>4

LEMMA ParametersStep ==
    ASSUME IInv, DecodeSps \/ DecodePps
    PROVE  IInv'
<1> DEFINE T == [slot : Slots, poc : Int, list : ListNames]
<1>1. TypeOK /\ Control  BY DEF IInv
<1>2. /\ UNCHANGED <<dpb, seqDecode, seqOutput, poc, pocTid0, maxRA, noOutput, ref, rps, firstType, eos,
                     output, packet, draining, decoded, lastPoc>>
      /\ pps' \in BOOLEAN /\ sps' \in {sps, NULL}
      /\ \/ listSps' \in SPSs /\ spsCurrent' = FALSE /\ pps' = FALSE
         \/ listSps # NULL /\ UNCHANGED <<listSps, spsCurrent>>
  BY DEF DecodeSps, DecodePps
<1>3. TypeOK'
  <2>1. rps \in Seq(T)  BY <1>1 DEF TypeOK
  <2> HIDE DEF T
  <2>2. listSps' \in SPSs \cup {NULL} /\ sps' \in SPSs \cup {NULL} /\ spsCurrent' \in BOOLEAN
    BY <1>1, <1>2 DEF TypeOK
  <2> QED BY <1>1, <1>2, <2>1, <2>2 DEF TypeOK, T
<1>4. Control'  BY <1>1, <1>2 DEF Control
<1> QED BY <1>2, <1>3, <1>4, QuietStep

LEMMA NextSliceStep ==
    ASSUME IInv, NEW type \in NalTypes, NEW discard \in BOOLEAN, NextSlice(type, discard)
    PROVE  IInv'
<1> DEFINE T == [slot : Slots, poc : Int, list : ListNames]
<1>1. TypeOK /\ Control  BY DEF IInv
<1>2. UNCHANGED <<dpb, seqDecode, seqOutput, listSps, sps, spsCurrent, pps, draining, decoded, lastPoc>>
  BY DEF NextSlice
<1>3. noOutput' \in BOOLEAN  BY DEF NextSlice
<1>4. GiveUp \/ UNCHANGED <<packet, output, ref, rps, firstType, eos>>  BY DEF NextSlice
<1>5. poc' \in Pocs /\ pocTid0' \in Pocs /\ maxRA' \in RAMin..RAMax
  <2>1. poc \in Pocs /\ pocTid0 \in Pocs /\ maxRA \in RAMin..RAMax /\ 0 \in Pocs
    BY <1>1, BoundAssumption DEF TypeOK, Pocs
  <2>2. CASE UNCHANGED <<poc, pocTid0, maxRA>>  BY <2>1, <2>2
  <2>3. CASE /\ poc' = IF type = "IDR" THEN 0 ELSE poc
             /\ pocTid0' = IF Anchors(type) THEN poc' ELSE pocTid0
             /\ maxRA' = ReachedRA(type, poc', maxRA)
    <3>1. poc' \in Pocs  BY <2>1, <2>3
    <3>2. maxRA' \in RAMin..RAMax
      <4>1. PICK q \in Pocs : q = poc'  BY <3>1
      <4>2. ReachedRA(type, q, maxRA) \in RAMin..RAMax  BY <2>1, ReachedType
      <4> QED BY <2>3, <4>1, <4>2
    <3> QED BY <2>1, <2>3, <3>1, <3>2
  <2> QED BY <2>2, <2>3 DEF NextSlice
<1>6. CASE GiveUp
  <2>1. /\ packet' = "none" /\ output' = NULL /\ ref' = NULL /\ firstType' = NULL
        /\ rps' \in Seq(T) /\ eos' \in BOOLEAN
    BY <1>6, Returned, TypesAssumption DEF GiveUp
  <2> HIDE DEF T
  <2>2. TypeOK'  BY <1>1, <1>2, <1>3, <1>5, <2>1 DEF TypeOK, T
  <2>3. Control'  BY <1>1, <1>2, <2>1 DEF Control
  <2> QED BY <1>2, <2>1, <2>2, <2>3, QuietStep
<1>7. CASE UNCHANGED <<packet, output, ref, rps, firstType, eos>>
  <2>1. TypeOK'
    <3>1. rps \in Seq(T)  BY <1>1 DEF TypeOK
    <3> HIDE DEF T
    <3> QED BY <1>1, <1>2, <1>3, <1>5, <1>7, <3>1 DEF TypeOK, T
  <2>2. Control'  BY <1>1, <1>2, <1>7 DEF Control
  <2> QED BY <1>2, <1>7, <2>1, <2>2, QuietStep
<1> QED BY <1>4, <1>6, <1>7

\* An empty packet only takes pictures out.
LEMMA DrainStep ==
    ASSUME IInv, Drain
    PROVE  /\ IInv'
           /\ lastPoc # NULL /\ seqOutput' = seqOutput => lastPoc' # NULL /\ lastPoc' >= lastPoc
<1> DEFINE T == [slot : Slots, poc : Int, list : ListNames]
<1>1. TypeOK /\ Control  BY DEF IInv
<1>2. /\ packet = "none" /\ draining' = TRUE
      /\ UNCHANGED <<seqDecode, poc, pocTid0, maxRA, noOutput, ref, rps, firstType, listSps, sps,
                     spsCurrent, pps, eos, output, packet, decoded>>
  BY DEF Drain, stream
<1>3. PICK o : o = OutputFrame(dpb, seqDecode, poc, noOutput, sps, TRUE) /\ Output(o)
  BY DEF Drain, Output
<1>4. BufferOK(dpb, seqOutput, seqDecode, decoded, lastPoc)  BY BufferedIs DEF IInv
<1>5. /\ dpb' \in Buffers /\ seqOutput' \in 0..SeqWrap - 1 /\ lastPoc' \in Pocs \cup {NULL}
      /\ BufferOK(dpb', seqOutput', seqDecode, decoded, lastPoc')
      /\ lastPoc # NULL /\ seqOutput' = seqOutput => lastPoc' # NULL /\ lastPoc' >= lastPoc
  <2>1. dpb \in Buffers /\ seqDecode \in 0..SeqWrap - 1 /\ decoded \in SUBSET Pocs
    BY <1>1 DEF TypeOK, Buffers
  <2>2. seqOutput \in 0..SeqWrap - 1 /\ lastPoc \in Pocs \cup {NULL}  BY <1>1 DEF TypeOK
  <2>3. o = OutputFrame(dpb, seqDecode, poc, noOutput, sps, TRUE) /\ Output(o) /\ TRUE \in BOOLEAN
    BY <1>3
  <2> QED BY <1>4, <2>1, <2>2, <2>3, OutputOK
<1>6. Buffered'
  <2>1. (Buffered <=> BufferOK(dpb, seqOutput, seqDecode, decoded, lastPoc))'  BY BufferedIs, PTL
  <2> QED BY <1>2, <1>5, <2>1
<1>7. Settled'  BY <1>2 DEF Settled
<1>8. TypeOK'
  <2>1. rps \in Seq(T)  BY <1>1 DEF TypeOK
  <2> HIDE DEF T
  <2>2. dpb' \in [Slots -> Frames \cup {NULL}]  BY <1>5 DEF Buffers
  <2> QED BY <1>1, <1>2, <1>5, <2>1, <2>2 DEF TypeOK, T
<1>9. Control' /\ ReferencesLive'
  <2>1. ref' = NULL  BY <1>1, <1>2 DEF Control
  <2> QED BY <1>1, <1>2, <2>1 DEF Control, ReferencesLive
<1> QED BY <1>5, <1>6, <1>7, <1>8, <1>9 DEF IInv

-----------------------------------------------------------------------------
(* The first slice of a picture.                                           *)

LEMMA SameLowBits ==
    ASSUME NEW m \in Nat \ {0}, NEW x \in Int, NEW y \in Int, x % m = y, (y - x) \in 1 - m..m - 1
    PROVE  x = y
<1>1. x = m * (x \div m) + y /\ (x \div m) \in Int  OBVIOUS
<1> DEFINE q == x \div m
<1>2. x = m * q + y /\ q \in Int  BY <1>1
<1> HIDE DEF q
<1>3. m * q < m /\ -m < m * q  BY <1>2
<1>4. q = 0
  <2>1. CASE q >= 1
    <3>1. m * q >= m  BY <1>2, <2>1
    <3> QED BY <1>2, <1>3, <3>1
  <2>2. CASE q <= -1
    <3>1. m * q <= -m  BY <1>2, <2>2
    <3> QED BY <1>2, <1>3, <3>1
  <2> QED BY <1>2, <2>1, <2>2
<1> QED BY <1>2, <1>4

\* References that were found are there as long as their marks are kept.
LEMMA ReferencesKept ==
    ASSUME NEW r, NEW new, NEW cur \in Slots, NEW seq, RefsGood(r, new, cur, seq),
           RefsKept(r.d, dpb'), dpb' \in Buffers, ref' = cur, rps' = r.rps
    PROVE  ReferencesLive'
<1>1. /\ r \in Candidates
      /\ r.d[cur] # NULL /\ r.d[cur].seq = seq /\ r.d[cur].flags \cap RefFlags # {}
      /\ \A n \in 1..Len(r.rps) : Refers(r.d, r.rps[n], cur, seq)
  BY DEF RefsGood
<1> DEFINE T == [slot : Slots, poc : Int, list : ListNames]
<1>2. r.rps \in Seq(T)  BY <1>1 DEF Candidates, References
<1>3. dpb'[cur] # NULL /\ dpb'[cur].seq = seq  BY <1>1 DEF RefsKept, Held
<1>4. ASSUME NEW e \in Usable'
      PROVE  /\ e.slot \in Slots /\ dpb'[e.slot] # NULL /\ e.slot # cur /\ dpb'[e.slot].seq = seq
             /\ dpb'[e.slot].flags \cap RefFlags # {}
             /\ dpb'[e.slot].poc = e.poc \/ dpb'[e.slot].poc % MaxPocLsb = e.poc
             /\ e.poc \in Int
  <2>1. e \in Range(r.rps)  BY DEF Usable
  <2> HIDE DEF T
  <2>2. PICK n \in 1..Len(r.rps) : e = r.rps[n]  BY <1>2, <2>1 DEF Range
  <2>3. e \in T  BY <1>2, <2>2
  <2>4. Refers(r.d, e, cur, seq)  BY <1>1, <2>2
  <2>5. e.poc \in Int  BY <2>3 DEF T
  <2> QED BY <2>4, <2>5 DEF Refers, RefsKept, Held
<1>5. ASSUME NEW e \in Usable', Near(seq, {f.poc : f \in Usable})'
      PROVE  dpb'[e.slot].poc = e.poc
  <2>1. /\ e.slot \in Slots /\ dpb'[e.slot] # NULL /\ dpb'[e.slot].seq = seq /\ e.poc \in Int
        /\ dpb'[e.slot].poc = e.poc \/ dpb'[e.slot].poc % MaxPocLsb = e.poc
    BY <1>4
  <2>2. dpb'[e.slot].poc \in Int  BY <2>1, FramesAre DEF Frames
  <2>3. (e.poc - dpb'[e.slot].poc) \in 1 - MaxPocLsb..MaxPocLsb - 1  BY <1>5, <2>1 DEF Near, Held
  <2> QED BY <2>1, <2>2, <2>3, SameLowBits, SizeAssumption
<1> QED BY <1>3, <1>4, <1>5 DEF ReferencesLive

\* More of a sequence is decoded.
LEMMA SettlesOn ==
    ASSUME NEW so, NEW s, NEW dec, NEW more \in SUBSET Pocs, dec \subseteq more, NEW last,
           NEW param, param.reorder \in Nat, Settles(so, s, dec, last, param)
    PROVE  Settles(so, s, more, last, param)
<1> SUFFICES ASSUME last # NULL, so = s
             PROVE  last \in more /\ Cardinality({q \in more : q >= last}) > param.reorder
  BY DEF Settles
<1> DEFINE S == {q \in dec : q >= last}
           T == {q \in more : q >= last}
<1>1. last \in dec /\ Cardinality(S) > param.reorder  BY DEF Settles
<1>2. S \subseteq T /\ T \subseteq Pocs  OBVIOUS
<1> HIDE DEF S, T
<1>3. IsFiniteSet(T)
  <2>1. IsFiniteSet(Pocs)  BY FS_Interval, BoundAssumption DEF Pocs
  <2> QED BY <1>2, <2>1, FS_Subset
<1>4. IsFiniteSet(S) /\ Cardinality(S) <= Cardinality(T)  BY <1>2, <1>3, FS_Subset
<1>5. Cardinality(S) \in Nat /\ Cardinality(T) \in Nat  BY <1>3, <1>4, FS_CardinalityType
<1>6. Cardinality(T) > param.reorder  BY ONLY <1>1, <1>4, <1>5, param.reorder \in Nat
<1> QED BY <1>1, <1>6 DEF T

\* The promise of the stream: a picture for output that is decoded now goes
\* after the last one output of its sequence.
LEMMA NewComesLater ==
    ASSUME IInv, ~draining, NEW s, ~spsCurrent => s # seqDecode, s # seqDecode => s # seqOutput,
           NEW p \in Pocs, Promised(p, s, TRUE), lastPoc # NULL, seqOutput = s
    PROVE  p > lastPoc
<1>1. s = seqDecode /\ spsCurrent  OBVIOUS
<1>2. TypeOK /\ Settled /\ Control  BY DEF IInv
<1>3. listSps \in SPSs /\ listSps.reorder \in Nat
  BY <1>1, <1>2, SPSAssumption DEF Control, TypeOK
<1> DEFINE S == {q \in decoded : q >= lastPoc}
           T == {q \in decoded : q > p}
<1>4. lastPoc \in decoded /\ Cardinality(S) > listSps.reorder  BY <1>1, <1>2 DEF Settled
<1>5. p \notin decoded /\ Cardinality(T) <= listSps.reorder  BY <1>1 DEF Promised, DecodedIn
<1>6. p \in Int /\ lastPoc \in Int /\ decoded \subseteq Int /\ decoded \subseteq Pocs
  BY <1>2, BoundAssumption DEF TypeOK, Pocs
<1> SUFFICES ASSUME ~ (p > lastPoc) PROVE FALSE  OBVIOUS
<1>7. p # lastPoc  BY <1>4, <1>5
<1>8. p < lastPoc  BY <1>6, <1>7
<1>9. S \subseteq T
  <2> SUFFICES ASSUME NEW q \in decoded, q >= lastPoc PROVE q > p  OBVIOUS
  <2>1. q \in Int  BY <1>6
  <2> QED BY ONLY <1>6, <1>8, <2>1, q >= lastPoc
<1>10. IsFiniteSet(T)
  <2>1. IsFiniteSet(Pocs)  BY FS_Interval, BoundAssumption DEF Pocs
  <2>2. T \subseteq Pocs  BY <1>6
  <2> HIDE DEF T
  <2> QED BY <2>1, <2>2, FS_Subset
<1> HIDE DEF S, T
<1>11. IsFiniteSet(S) /\ Cardinality(S) <= Cardinality(T)  BY <1>9, <1>10, FS_Subset
<1>12. Cardinality(S) \in Nat /\ Cardinality(T) \in Nat  BY <1>10, <1>11, FS_CardinalityType
<1> QED BY ONLY <1>3, <1>4, <1>5, <1>11, <1>12

\* What is decoded of the sequence goes on to settle it.
LEMMA StillSettles ==
    ASSUME IInv, ~draining, NEW s, ~spsCurrent => s # seqDecode, s # seqDecode => s # seqOutput
    PROVE  Settles(seqOutput, s, DecodedIn(s), lastPoc, listSps)
BY DEF IInv, Settled, Settles, DecodedIn

LEMMA ReferencedGood ==
    ASSUME NEW d \in Buffers, NEW new, NEW cur \in Slots, NEW seq \in 0..SeqWrap - 1,
           NEW p \in Pocs, NEW out, NEW type,
           new = NewRef(d, cur, seq, p, out), new \in Buffers,
           new[cur] # NULL, new[cur].seq = seq, new[cur].flags \cap RefFlags # {},
           NEW refs, type # "IDR" => refs \in RefSets,
           NEW r \in Referenced(type, refs, d, cur, seq, p, out)
    PROVE  RefsGood(r, new, cur, seq)
<1>1. p \in Int  BY BoundAssumption DEF Pocs
<1>2. CASE type = "IDR"
  <2>1. r = [ok |-> TRUE, d |-> new, rps |-> <<>>]  BY <1>2 DEF Referenced
  <2>2. r \in Candidates /\ r.d = new /\ r.rps = <<>> /\ Len(r.rps) = 0
    BY <2>1 DEF Candidates, References
  <2>3. NoMoreWait(new, new)  BY DEF NoMoreWait
  <2> QED BY <2>2, <2>3 DEF RefsGood
<1>3. CASE type # "IDR"
  <2>1. r \in FrameRps(new, refs, cur, seq, p)  BY <1>3 DEF Referenced
  <2> QED BY <1>1, <1>3, <2>1, FrameRpsGood
<1> QED BY <1>2, <1>3

\* hevc_frame_start puts the new picture in its place.
LEMMA NewPicture ==
    ASSUME IInv, packet = "params", NEW type \in NalTypes, NEW discard, NEW p \in Pocs,
           NEW out \in BOOLEAN, Activate(type, discard), Promised(p, Activated(type), out),
           ~Duplicate(ActivatedDpb(type), Activated(type), p), Vacant(ActivatedDpb(type)) # {},
           NEW d, d = ActivatedDpb(type), NEW s, s = Activated(type),
           NEW cur, cur = Least(Vacant(d)), NEW new, new = NewRef(d, cur, s, p, out),
           NEW dec, dec = DecodedIn(s) \cup IF out THEN {p} ELSE {}
    PROVE  /\ d \in Buffers /\ s \in 0..SeqWrap - 1 /\ cur \in Slots /\ dec \in SUBSET Pocs
           /\ listSps \in SPSs /\ listSps.reorder \in Nat /\ ~draining
           /\ new \in Buffers
           /\ new[cur] # NULL /\ new[cur].seq = s /\ new[cur].flags \cap RefFlags # {}
           /\ BufferOK(new, seqOutput, s, dec, lastPoc)
           /\ Settles(seqOutput, s, dec, lastPoc, listSps)
<1>1. TypeOK /\ Control  BY DEF IInv
<1>2. /\ s \in 0..SeqWrap - 1
      /\ ~spsCurrent => s # seqDecode
      /\ d \in Buffers /\ NoMoreWait(dpb, d)
  BY <1>1, HeaderOpens
<1>3. pps /\ Within(s)  BY DEF Activate
<1>4. ~draining /\ listSps \in SPSs /\ listSps.reorder \in Nat
  BY <1>1, <1>3, SPSAssumption DEF Control, TypeOK
<1>5. /\ BufferOK(dpb, seqOutput, s, DecodedIn(s), lastPoc)
      /\ s # seqDecode => s # seqOutput
      /\ DecodedIn(s) \in SUBSET Pocs
  BY <1>2, <1>3, WithinOK
<1>6. BufferOK(d, seqOutput, s, DecodedIn(s), lastPoc)  BY <1>2, <1>5, FewerOK
<1>7. cur \in Slots /\ d[cur] = NULL
  <2>1. Vacant(d) \in SUBSET Slots  BY DEF Vacant
  <2>2. cur \in Vacant(d)  BY <2>1, LeastSlot
  <2> QED BY <2>2 DEF Vacant, Held
<1>8. lastPoc # NULL /\ out /\ seqOutput = s => p > lastPoc
  <2> SUFFICES ASSUME lastPoc # NULL, out, seqOutput = s PROVE p > lastPoc
    BY Zenon
  <2>1. Promised(p, s, TRUE)  BY DEF Promised
  <2> QED BY <1>2, <1>4, <1>5, <2>1, NewComesLater
<1>9. /\ new \in Buffers
      /\ BufferOK(new, seqOutput, s, dec, lastPoc)
      /\ new[cur] # NULL /\ new[cur].seq = s /\ new[cur].flags \cap RefFlags # {}
  <2>1. seqOutput \in 0..SeqWrap - 1  BY <1>1 DEF TypeOK
  <2>2. ~Duplicate(d, s, p)  OBVIOUS
  <2> QED BY <1>2, <1>6, <1>7, <1>8, <2>1, <2>2, NewRefOK
<1>10. dec \in SUBSET Pocs /\ DecodedIn(s) \subseteq dec  BY <1>5
<1>11. Settles(seqOutput, s, DecodedIn(s), lastPoc, listSps)  BY <1>2, <1>4, <1>5, StillSettles
<1>12. Settles(seqOutput, s, dec, lastPoc, listSps)  BY <1>4, <1>10, <1>11, SettlesOn
<1> QED BY <1>2, <1>4, <1>7, <1>9, <1>10, <1>12

\* A step that decodes a picture keeps the invariant.
LEMMA DecodedStep ==
    ASSUME TypeOK, dpb' \in Buffers, NEW s \in 0..SeqWrap - 1, seqDecode' = s,
           NEW dec \in SUBSET Pocs, decoded' = dec,
           seqOutput' \in 0..SeqWrap - 1, lastPoc' \in Pocs \cup {NULL},
           BufferOK(dpb', seqOutput', s, dec, lastPoc'),
           Settles(seqOutput', s, dec, lastPoc', listSps), ~draining,
           pps, listSps # NULL, sps' = listSps, spsCurrent' = TRUE, UNCHANGED <<listSps, pps, draining>>,
           maxRA' \in RAMin..RAMax, noOutput' \in BOOLEAN, poc' \in Pocs, pocTid0' \in Pocs,
           packet' \in {"none", "slices"}, output' \in Outputs \cup {NULL}, ref' \in Slots \cup {NULL},
           ref' # NULL => packet' = "slices",
           firstType' \in NalTypes \cup {NULL}, eos' \in BOOLEAN,
           rps' \in Seq([slot : Slots, poc : Int, list : ListNames]), ReferencesLive'
    PROVE  IInv'
<1> DEFINE T == [slot : Slots, poc : Int, list : ListNames]
<1>1. TypeOK'
  <2>1. rps' \in Seq(T)  OBVIOUS
  <2> HIDE DEF T
  <2>2. dpb' \in [Slots -> Frames \cup {NULL}] /\ decoded' \subseteq Pocs  BY DEF Buffers
  <2>3. /\ listSps' \in SPSs \cup {NULL} /\ sps' \in SPSs \cup {NULL} /\ pps' \in BOOLEAN
        /\ draining' \in BOOLEAN /\ spsCurrent' \in BOOLEAN
    BY DEF TypeOK
  <2> QED BY <2>1, <2>2, <2>3 DEF TypeOK, T
<1>2. Control'  BY DEF Control
<1>3. Buffered'
  <2>1. (Buffered <=> BufferOK(dpb, seqOutput, seqDecode, decoded, lastPoc))'  BY BufferedIs, PTL
  <2> QED BY <2>1
<1>4. Settled'  BY DEF Settled, Settles
<1> QED BY <1>1, <1>2, <1>3, <1>4 DEF IInv

\* How the first slice ends, with references r.
Decides(r, type, p, cur) ==
    \/ /\ ~r.ok
       /\ dpb' = r.d /\ GiveUp
       /\ UNCHANGED <<seqOutput, lastPoc>>
    \/ /\ r.ok
       /\ \E b \in {IF type \in IRAP THEN r.d ELSE Bump(r.d, p, listSps)} :
          \E o \in {OutputFrame(b, Activated(type), p, noOutput', listSps, FALSE)} :
            /\ Output(o)
            /\ \/ /\ packet' = "slices" /\ output' = o.frame
                  /\ ref' = cur /\ rps' = r.rps /\ firstType' = type
                  /\ UNCHANGED eos
               \/ o.frame # NULL /\ GiveUp

LEMMA StartPictureStep ==
    ASSUME IInv, packet = "params", NEW type \in NalTypes, NEW discard \in BOOLEAN, NEW p \in Pocs,
           NEW refs, type # "IDR" => refs \in RefSets, NEW out \in BOOLEAN,
           StartPicture(type, discard, p, refs, out)
    PROVE  /\ IInv'
           /\ lastPoc # NULL /\ seqOutput' = seqOutput => lastPoc' # NULL /\ lastPoc' >= lastPoc
<1>1. PICK d \in {ActivatedDpb(type)} : \E c \in {Least(Vacant(d))} :
        \E r \in Referenced(type, refs, d, c, Activated(type), p, out) : Decides(r, type, p, c)
  BY DEF StartPicture, Decides, Output, GiveUp, Return
<1>2. PICK s : s = Activated(type)  OBVIOUS
<1>3. PICK cur \in {Least(Vacant(d))} :
        \E r \in Referenced(type, refs, d, cur, Activated(type), p, out) : Decides(r, type, p, cur)
  BY <1>1 DEF Decides, Output, GiveUp, Return
<1>4. PICK new : new = NewRef(d, cur, s, p, out)  OBVIOUS
<1>5. PICK dec : dec = DecodedIn(s) \cup IF out THEN {p} ELSE {}  OBVIOUS
<1>6. /\ Place(type, discard, p) /\ Promised(p, s, out)
      /\ ~Duplicate(d, s, p) /\ Vacant(d) # {}
      /\ maxRA' = ReachedRA(type, p, ActivatedRA(type))
      /\ decoded' = dec
  BY <1>1, <1>2, <1>5 DEF StartPicture
<1>7. TypeOK  BY DEF IInv
<1>8. /\ poc' \in Pocs /\ pocTid0' \in Pocs /\ Activate(type, discard)  BY <1>6, <1>7, PlaceType
<1>9. /\ d \in Buffers /\ s \in 0..SeqWrap - 1 /\ cur \in Slots /\ dec \in SUBSET Pocs
      /\ listSps \in SPSs /\ listSps.reorder \in Nat /\ ~draining
      /\ new \in Buffers
      /\ new[cur] # NULL /\ new[cur].seq = s /\ new[cur].flags \cap RefFlags # {}
      /\ BufferOK(new, seqOutput, s, dec, lastPoc)
      /\ Settles(seqOutput, s, dec, lastPoc, listSps)
  BY <1>1, <1>2, <1>3, <1>4, <1>5, <1>6, <1>8, NewPicture
<1>10. /\ pps /\ seqDecode' = s /\ sps' = listSps /\ spsCurrent' = TRUE
       /\ UNCHANGED <<listSps, pps, draining>> /\ noOutput' \in BOOLEAN
  BY <1>2, <1>8 DEF Activate, Discards
<1>11. maxRA' \in RAMin..RAMax
  <2>1. ActivatedRA(type) \in RAMin..RAMax  BY <1>7, HeaderOpens
  <2> QED BY <1>6, <2>1, ReachedType
<1>12. seqOutput \in 0..SeqWrap - 1 /\ lastPoc \in Pocs \cup {NULL} /\ listSps # NULL
  BY <1>7, <1>9, SPSAssumption DEF TypeOK
<1>13. PICK r \in Referenced(type, refs, d, cur, Activated(type), p, out) : Decides(r, type, p, cur)
  BY <1>3 DEF Decides, Output, GiveUp, Return
<1>14. RefsGood(r, new, cur, s)
  <2>1. r \in Referenced(type, refs, d, cur, s, p, out)  BY <1>2
  <2>2. /\ d \in Buffers /\ cur \in Slots /\ s \in 0..SeqWrap - 1 /\ new \in Buffers
        /\ new[cur] # NULL /\ new[cur].seq = s /\ new[cur].flags \cap RefFlags # {}
    BY <1>9
  <2> QED BY <1>4, <2>1, <2>2, ReferencedGood
<1>15. r \in Candidates /\ r.d \in Buffers /\ NoMoreWait(new, r.d)  BY <1>14 DEF RefsGood, Candidates
<1>16. BufferOK(r.d, seqOutput, s, dec, lastPoc)  BY <1>9, <1>15, FewerOK
<1> DEFINE T == [slot : Slots, poc : Int, list : ListNames]
<1>17. CASE dpb' = r.d /\ GiveUp /\ UNCHANGED <<seqOutput, lastPoc>>
  <2>1. /\ packet' = "none" /\ output' = NULL /\ ref' = NULL /\ firstType' = NULL
        /\ rps' \in Seq(T) /\ eos' \in BOOLEAN /\ ReferencesLive'
    BY <1>17, Returned, TypesAssumption DEF GiveUp
  <2> HIDE DEF T
  <2>2. rps' \in Seq([slot : Slots, poc : Int, list : ListNames])  BY <2>1 DEF T
  <2>3. BufferOK(dpb', seqOutput', s, dec, lastPoc') /\ Settles(seqOutput', s, dec, lastPoc', listSps)
    BY <1>9, <1>16, <1>17
  <2>4. dpb' \in Buffers /\ seqOutput' \in 0..SeqWrap - 1 /\ lastPoc' \in Pocs \cup {NULL}
    BY <1>12, <1>15, <1>17
  <2>5. IInv'
    BY <1>6, <1>7, <1>8, <1>9, <1>10, <1>11, <1>12, <2>1, <2>2, <2>3, <2>4, DecodedStep
  <2>6. ASSUME lastPoc # NULL PROVE lastPoc' # NULL /\ lastPoc' >= lastPoc
    <3>1. lastPoc \in Int  BY <1>12, <2>6, BoundAssumption DEF Pocs
    <3> QED BY <1>17, <2>6, <3>1
  <2> QED BY <2>5, <2>6
<1>18. CASE \E b \in {IF type \in IRAP THEN r.d ELSE Bump(r.d, p, listSps)} :
            \E o \in {OutputFrame(b, Activated(type), p, noOutput', listSps, FALSE)} :
              /\ Output(o)
              /\ \/ /\ packet' = "slices" /\ output' = o.frame
                    /\ ref' = cur /\ rps' = r.rps /\ firstType' = type
                    /\ UNCHANGED eos
                 \/ o.frame # NULL /\ GiveUp
  <2>1. PICK b \in {IF type \in IRAP THEN r.d ELSE Bump(r.d, p, listSps)} :
            \E o \in {OutputFrame(b, Activated(type), p, noOutput', listSps, FALSE)} :
              /\ Output(o)
              /\ \/ /\ packet' = "slices" /\ output' = o.frame
                    /\ ref' = cur /\ rps' = r.rps /\ firstType' = type
                    /\ UNCHANGED eos
                 \/ o.frame # NULL /\ GiveUp
    BY <1>18 DEF Output, GiveUp, Return
  <2>2. PICK o \in {OutputFrame(b, Activated(type), p, noOutput', listSps, FALSE)} :
              /\ Output(o)
              /\ \/ /\ packet' = "slices" /\ output' = o.frame
                    /\ ref' = cur /\ rps' = r.rps /\ firstType' = type
                    /\ UNCHANGED eos
                 \/ o.frame # NULL /\ GiveUp
    BY <2>1 DEF Output, GiveUp, Return
  <2>3. Output(o)  BY <2>2
  <2>4. PICK disc : disc = noOutput'  OBVIOUS
  <2>5. o = OutputFrame(b, s, p, disc, listSps, FALSE)  BY <1>2, <2>2, <2>4
  <2>6. b \in Buffers /\ NoMoreWait(r.d, b) /\ RefsKept(r.d, b)
    <3>1. b = r.d \/ b = Bump(r.d, p, listSps)  BY <2>1
    <3>2. CASE b = r.d  BY <1>15, <3>2 DEF NoMoreWait, RefsKept, Held
    <3>3. CASE b = Bump(r.d, p, listSps)  BY <1>15, <3>3, BumpMarks
    <3> QED BY <3>1, <3>2, <3>3
  <2>7. BufferOK(b, seqOutput, s, dec, lastPoc)  BY <1>16, <2>6, FewerOK
  <2>8. /\ dpb' \in Buffers /\ seqOutput' \in 0..SeqWrap - 1 /\ lastPoc' \in Pocs \cup {NULL}
        /\ RefsKept(b, dpb') /\ (o.frame = NULL \/ o.frame \in Outputs)
        /\ BufferOK(dpb', seqOutput', s, dec, lastPoc')
        /\ lastPoc # NULL /\ seqOutput' = seqOutput => lastPoc' # NULL /\ lastPoc' >= lastPoc
        /\ Settles(seqOutput', s, dec, lastPoc', listSps)
    <3>1. FALSE \in BOOLEAN  OBVIOUS
    <3> QED BY <1>9, <1>12, <2>3, <2>5, <2>6, <2>7, <3>1, OutputOK
  <2>9. /\ packet' \in {"none", "slices"} /\ output' \in Outputs \cup {NULL}
        /\ ref' \in Slots \cup {NULL} /\ (ref' # NULL => packet' = "slices")
        /\ firstType' \in NalTypes \cup {NULL} /\ eos' \in BOOLEAN
        /\ rps' \in Seq(T) /\ ReferencesLive'
    <3>1. CASE /\ packet' = "slices" /\ output' = o.frame
               /\ ref' = cur /\ rps' = r.rps /\ firstType' = type
               /\ UNCHANGED eos
      <4>1. RefsKept(r.d, dpb')  BY <2>6, <2>8, RefsKeptTrans
      <4>2. ReferencesLive'  BY <1>9, <1>14, <2>8, <3>1, <4>1, ReferencesKept
      <4>3. r.rps \in Seq(T)  BY <1>15 DEF Candidates, References
      <4>4. eos \in BOOLEAN  BY <1>7 DEF TypeOK
      <4> HIDE DEF T
      <4> QED BY <1>9, <2>8, <3>1, <4>2, <4>3, <4>4
    <3>2. CASE GiveUp
      <4>1. /\ packet' = "none" /\ output' = NULL /\ ref' = NULL /\ firstType' = NULL
            /\ rps' \in Seq(T) /\ eos' \in BOOLEAN /\ ReferencesLive'
        BY <3>2, Returned, TypesAssumption DEF GiveUp
      <4> HIDE DEF T
      <4> QED BY <4>1
    <3> QED BY <2>2, <3>1, <3>2
  <2> HIDE DEF T
  <2>10. rps' \in Seq([slot : Slots, poc : Int, list : ListNames])  BY <2>9 DEF T
  <2>11. IInv'
    BY <1>6, <1>7, <1>8, <1>9, <1>10, <1>11, <1>12, <2>8, <2>9, <2>10, DecodedStep
  <2> QED BY <2>8, <2>11
<1> QED BY <1>13, <1>17, <1>18 DEF Decides

-----------------------------------------------------------------------------
(* The theorems.                                                           *)

\* Output of the sequence it is in goes on from the last picture.
Onward == lastPoc # NULL /\ seqOutput' = seqOutput => lastPoc' # NULL /\ lastPoc' >= lastPoc

LEMMA Stays ==
    ASSUME TypeOK, UNCHANGED lastPoc
    PROVE  Onward
<1> SUFFICES ASSUME lastPoc # NULL PROVE lastPoc' # NULL /\ lastPoc' >= lastPoc
  BY DEF Onward
<1>1. lastPoc \in Int  BY BoundAssumption DEF TypeOK, Pocs
<1> QED BY <1>1

LEMMA FirstSliceStep ==
    ASSUME IInv, FirstSlice
    PROVE  IInv' /\ Onward
<1>1. packet = "params"  BY DEF FirstSlice
<1>2. PICK type \in NalTypes, discard \in BOOLEAN :
        \/ SliceWithoutPps(type, discard) \/ ActivationFails(type, discard)
        \/ SliceBroken(type, discard)
        \/ \E p \in Counts(type) :
            \/ PlacedSliceBroken(type, discard, p) \/ SkipSlice(type, discard, p)
            \/ NoNewRef(type, discard, p)
            \/ \E refs \in IF type = "IDR" THEN {<<>>} ELSE RefSets, out \in BOOLEAN :
                StartPicture(type, discard, p, refs, out)
  BY DEF FirstSlice
<1>3. TypeOK  BY DEF IInv
<1>4. Counts(type) \subseteq Pocs /\ 0 \in Pocs  BY BoundAssumption DEF Counts, Pocs
<1>5. CASE SliceWithoutPps(type, discard) \/ ActivationFails(type, discard)
  <2>1. UNCHANGED lastPoc  BY <1>5 DEF SliceWithoutPps, ActivationFails
  <2> QED BY <1>1, <1>3, <1>5, <2>1, UnopenedStep, Stays
<1>6. CASE SliceBroken(type, discard)
  <2>1. UNCHANGED lastPoc  BY <1>6 DEF SliceBroken, Broken
  <2> QED BY <1>1, <1>3, <1>4, <1>6, <2>1, RefusedStep, Stays
<1>7. ASSUME NEW p \in Counts(type),
             \/ PlacedSliceBroken(type, discard, p) \/ SkipSlice(type, discard, p)
             \/ NoNewRef(type, discard, p)
      PROVE  IInv' /\ Onward
  <2>1. UNCHANGED lastPoc  BY <1>7 DEF PlacedSliceBroken, Broken, SkipSlice, NoNewRef
  <2>2. p \in Pocs  BY <1>4, <1>7
  <2> QED BY <1>1, <1>3, <1>7, <2>1, <2>2, RefusedStep, Stays
<1>8. ASSUME NEW p \in Counts(type), NEW refs \in IF type = "IDR" THEN {<<>>} ELSE RefSets,
             NEW out \in BOOLEAN, StartPicture(type, discard, p, refs, out)
      PROVE  IInv' /\ Onward
  <2>1. type # "IDR" => refs \in RefSets  OBVIOUS
  <2>2. p \in Pocs  BY <1>4
  <2> QED BY <1>1, <1>8, <2>1, <2>2, StartPictureStep DEF Onward
<1> QED BY <1>2, <1>5, <1>6, <1>7, <1>8

LEMMA Inductive ==
    ASSUME IInv, [Next]_vars
    PROVE  IInv' /\ Onward
<1>1. TypeOK  BY DEF IInv
<1>2. CASE StartPacket \/ EndPacket
  <2>1. UNCHANGED lastPoc  BY <1>2 DEF StartPacket, EndPacket
  <2> QED BY <1>1, <1>2, <2>1, PacketStep, Stays
<1>3. CASE DecodeSps \/ DecodePps
  <2>1. UNCHANGED lastPoc  BY <1>3 DEF DecodeSps, DecodePps
  <2> QED BY <1>1, <1>3, <2>1, ParametersStep, Stays
<1>4. CASE FirstSlice  BY <1>4, FirstSliceStep
<1>5. ASSUME NEW type \in NalTypes, NEW discard \in BOOLEAN, NextSlice(type, discard)
      PROVE  IInv' /\ Onward
  <2>1. UNCHANGED lastPoc  BY <1>5 DEF NextSlice
  <2> QED BY <1>1, <1>5, <2>1, NextSliceStep, Stays
<1>6. CASE EndSequence
  <2>1. UNCHANGED lastPoc  BY <1>6 DEF EndSequence
  <2> QED BY <1>1, <1>6, <2>1, EndSequenceStep, Stays
<1>7. CASE Drain  BY <1>7, DrainStep DEF Onward
<1>8. CASE UNCHANGED vars
  <2>1. UNCHANGED <<dpb, seqDecode, seqOutput, decoded, lastPoc, listSps, spsCurrent, draining, ref, rps>>
    BY <1>8 DEF vars, stream
  <2>2. TypeOK'
    <3> DEFINE T == [slot : Slots, poc : Int, list : ListNames]
    <3>1. rps \in Seq(T)  BY <1>1 DEF TypeOK
    <3> HIDE DEF T
    <3> QED BY <1>1, <1>8, <3>1 DEF vars, stream, TypeOK, T
  <2>3. Control'
    <3>1. Control  BY DEF IInv
    <3> QED BY <1>8, <3>1 DEF vars, stream, Control
  <2> QED BY <1>1, <2>1, <2>2, <2>3, QuietStep, Stays
<1> QED BY <1>2, <1>3, <1>4, <1>5, <1>6, <1>7, <1>8 DEF Next

LEMMA Initial == Init => IInv
<1> SUFFICES ASSUME Init PROVE IInv  OBVIOUS
<1> DEFINE T == [slot : Slots, poc : Int, list : ListNames]
<1>1. /\ dpb = [i \in Slots |-> NULL] /\ seqDecode = 0 /\ seqOutput = 0
      /\ ref = NULL /\ rps = <<>> /\ draining = FALSE /\ lastPoc = NULL /\ pps = FALSE /\ spsCurrent = FALSE
  BY DEF Init
<1>2. TypeOK
  <2>1. rps \in Seq(T)  BY <1>1
  <2>2. 0 \in Pocs /\ RAMax \in RAMin..RAMax /\ 0 \in 0..SeqWrap - 1
    BY BoundAssumption, SizeAssumption DEF Pocs, RAMax, RAMin
  <2> HIDE DEF T
  <2> QED BY <2>1, <2>2 DEF Init, TypeOK, T
<1>3. Control /\ Settled /\ ReferencesLive  BY <1>1 DEF Control, Settled, ReferencesLive
<1>4. Waiting = {}  BY <1>1 DEF Waiting, Held
<1>5. Buffered
  BY <1>1, <1>4 DEF Buffered, Counted, Apart, NothingStranded, Recorded, Later
<1> QED BY <1>2, <1>3, <1>5 DEF IInv

LEMMA Invariance == Spec => []IInv
<1>1. IInv /\ [Next]_vars => IInv'  BY Inductive
<1> QED BY <1>1, Initial, PTL DEF Spec

\* For any number of slots, any parameter sets and any stream that keeps their
\* promise: the references slices may name stay in the buffer as long as they
\* may be named, and no picture that waits is left in a sequence that the
\* output of ff_hevc_output_frame has passed, also when the counters wrap.
THEOREM BufferServes == Spec => []SlotsServe
<1>1. IInv => SlotsServe  BY DEF IInv, Buffered, SlotsServe
<1> QED BY <1>1, Invariance, PTL

\* Pictures of a sequence leave in the order of their counts, each once, and
\* none is left behind: what ff_hevc_output_frame hands out as early as the
\* stream's promise about reordering allows is never overtaken by what comes.
THEOREM OutputInOrder == Spec => InOrder
<1>1. ASSUME IInv, IInv', [Next]_vars
      PROVE  [lastPoc # NULL /\ seqOutput' = seqOutput =>
                /\ lastPoc' # NULL /\ lastPoc' >= lastPoc
                /\ \A i \in Waiting' : dpb'[i].seq = seqOutput' => dpb'[i].poc > lastPoc']_<<dpb, lastPoc, seqOutput>>
  <2>1. Onward  BY <1>1, Inductive
  <2>2. Later'  BY <1>1 DEF IInv, Buffered
  <2> QED BY <2>1, <2>2 DEF Onward, Later
<1> QED BY <1>1, Invariance, PTL DEF Spec, InOrder
=============================================================================
