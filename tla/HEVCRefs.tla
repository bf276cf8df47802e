------------------------------ MODULE HEVCRefs ------------------------------
(***************************************************************************)
(* The decoded picture buffer of the HEVC decoder: hevc_refs.c with the    *)
(* parts of hevc.c and hevc_ps.c that drive it, from a packet to the       *)
(* picture handed to the caller.  Slices keep of their header what decides *)
(* about pictures; decoding their samples changes none of this state.      *)
(***************************************************************************)
EXTENDS Integers, FiniteSets, Sequences, SequencesExt

CONSTANTS
    NumSlots,    \* entries of HEVCContext.DPB, 32 in hevc.h
    SeqWrap,      \* sequence counters are kept modulo this, 256
    MaxPocLsb,   \* 1 << log2_max_poc_lsb
    SPSs,        \* parameter sets: [size, buffering, reorder]
    Follows,     \* bound: [old, new], which parameter set may follow which
    NalTypes,    \* slice types the stream may contain
    RefSets,     \* reference picture sets a slice header may carry
    MinPoc, MaxPoc,   \* bound: picture order counts of the stream
    MaxAhead,         \* bound: sequences begun and not yet output
    UnreadEos,        \* bound: whether a packet given up may still hold the end of a sequence
    NULL

Slots == 1..NumSlots
ListNames == {"StCurrBef", "StCurrAft", "StFoll", "LtCurr", "LtFoll"}
RefFlags == {"ShortRef", "LongRef"}
AllFlags == RefFlags \cup {"Output", "Bumping"}
IRAP == {"IDR", "BLA", "CRA"}
SliceTypes == IRAP \cup {"RASL_R", "RASL_N", "TRAIL_R", "TRAIL_N"}
Pocs == MinPoc..MaxPoc

Frames == [seq : 0..SeqWrap - 1, poc : Int, flags : SUBSET AllFlags]
Outputs == [seq : 0..SeqWrap - 1, poc : Int]

ASSUME SizeAssumption == NumSlots \in Nat \ {0} /\ SeqWrap \in Nat /\ SeqWrap > 2 /\ MaxPocLsb \in Nat \ {0}
ASSUME BoundAssumption == /\ MinPoc \in Int /\ MaxPoc \in Int /\ MinPoc <= 0 /\ 0 <= MaxPoc
                          /\ MaxAhead \in 0..SeqWrap - 1
ASSUME SPSAssumption == \A s \in SPSs : s.buffering \in Nat /\ s.reorder \in Nat /\ s # NULL
ASSUME RefsAssumption == RefSets \subseteq Seq([delta : Int, list : ListNames, flag : RefFlags])
ASSUME NullAssumption == NULL \notin Slots /\ NULL \notin Pocs /\ NULL \notin Frames /\ NULL \notin Outputs
ASSUME TypesAssumption == NalTypes \subseteq SliceTypes /\ UnreadEos \subseteq BOOLEAN /\ UnreadEos # {}

VARIABLES
    dpb,         \* slot -> its picture [seq, poc, flags], or NULL without a buffer
    seqDecode, seqOutput,     \* seq_decode, seq_output
    poc, pocTid0,             \* of the last slice; of the last anchor picture
    maxRA,       \* max_ra: pictures up to it cannot be decoded after a random access
    noOutput,    \* sh.no_output_of_prior_pics_flag
    ref,         \* s->ref: slot of the picture being decoded
    rps,         \* s->rps: [slot, poc, list] of each reference found or made
    firstType,   \* first_nal_type
    eos,         \* last_eos: the packet before ended a sequence
    listSps,     \* sps_list[0]
    sps,         \* s->sps
    spsCurrent,  \* s->sps is the buffer in the list
    pps,         \* the parameter set slices name is in pps_list
    output,      \* output_frame: [seq, poc], or NULL
    packet,      \* where hevc_decode_frame is: none, params or slices
    draining,    \* the caller has begun to send empty packets
    decoded,     \* history: order counts for output decoded in this sequence
    lastPoc      \* history: the last one output of sequence seqOutput

stream == <<listSps, sps, spsCurrent, pps, eos>>
vars == <<dpb, seqDecode, seqOutput, poc, pocTid0, maxRA, noOutput, ref, rps, firstType, stream,
          output, packet, draining, decoded, lastPoc>>

RAMax == MaxPoc + 1    \* INT_MAX and INT_MIN
RAMin == MinPoc - 1

Least(S) == CHOOSE x \in S : \A y \in S : x <= y
Held(d) == {i \in Slots : d[i] # NULL}
Vacant(d) == Slots \ Held(d)

-----------------------------------------------------------------------------
(* Frames: what each function of hevc_refs.c does to the buffer d.         *)

\* ff_hevc_unref_frame on each slot of S: a frame left without flags goes.
Unref(d, S, flags) == [i \in Slots |->
    IF i \notin S \/ d[i] = NULL THEN d[i]
    ELSE IF d[i].flags \subseteq flags THEN NULL
    ELSE [d[i] EXCEPT !.flags = @ \ flags]]

ClearRefs(d) == Unref(d, Slots, RefFlags)

\* ff_hevc_set_new_ref
Duplicate(d, seq, p) == \E i \in Held(d) : d[i].seq = seq /\ d[i].poc = p
NewRef(d, i, seq, p, out) ==
    [d EXCEPT ![i] = [seq |-> seq, poc |-> p,
                      flags |-> IF out THEN {"Output", "ShortRef"} ELSE {"ShortRef"}]]

\* mark_ref
MarkRef(frame, flags) == [frame EXCEPT !.flags = (@ \ RefFlags) \cup flags]

\* find_ref_idx: the first frame whose low bits are the count asked for, else
\* one with the count itself.
FindRef(d, seq, p) ==
    LET here == {i \in Held(d) : d[i].seq = seq}
        low == {i \in here : d[i].poc % MaxPocLsb = p}
        full == {i \in here : d[i].poc = p}
    IN  IF low # {} THEN Least(low) ELSE IF full # {} THEN Least(full) ELSE NULL

\* add_candidate_ref: how the buffer and the sets st may be afterwards; a
\* frame made for a missing reference needs a slot and memory.
AddRef(st, e, cur, seq, p) ==
    LET found == FindRef(st.d, seq, p)
        with(i, frame) == [ok |-> TRUE, d |-> [st.d EXCEPT ![i] = MarkRef(frame, {e.flag})],
                           rps |-> Append(st.rps, [slot |-> i, poc |-> p, list |-> e.list])]
        failed == {[st EXCEPT !.ok = FALSE]}
    IN  IF ~st.ok THEN {st}
        ELSE IF found = cur THEN failed
        ELSE IF found # NULL THEN {with(found, st.d[found])}
        ELSE IF Vacant(st.d) = {} THEN failed
        ELSE failed \cup {with(Least(Vacant(st.d)), [seq |-> seq, poc |-> p, flags |-> {}])}

\* ff_hevc_frame_rps of a picture that is not an IDR: the marks of the other
\* frames go, each reference is marked or made, and frames left over go.
Unmarked(d, cur) == [i \in Slots |-> IF i = cur \/ d[i] = NULL THEN d[i] ELSE MarkRef(d[i], {})]
AddRefs(d, refs, cur, seq, p) ==
    LET upTo[n \in 0..Len(refs)] ==
            IF n = 0 THEN {[ok |-> TRUE, d |-> Unmarked(d, cur), rps |-> <<>>]}
            ELSE UNION {AddRef(st, refs[n], cur, seq, p + refs[n].delta) : st \in upTo[n - 1]}
    IN  upTo
FrameRps(d, refs, cur, seq, p) ==
    {IF st.ok THEN [st EXCEPT !.d = Unref(st.d, Slots, {})] ELSE st :
        st \in AddRefs(d, refs, cur, seq, p)[Len(refs)]}

\* ff_hevc_bump_frame
Bump(d, p, param) ==
    LET full == {i \in Held(d) : d[i].flags # {} /\ d[i].seq = seqOutput /\ d[i].poc # p}
        plain == {d[i].poc : i \in {j \in full : d[j].flags = {"Output"}}}
        upTo == IF plain = {} THEN MaxPoc ELSE Least(plain)
    IN  IF Cardinality(full) < param.buffering THEN d
        ELSE [i \in Slots |->
            IF d[i] # NULL /\ "Output" \in d[i].flags /\ d[i].seq = seqOutput /\ d[i].poc <= upTo
            THEN [d[i] EXCEPT !.flags = @ \cup {"Bumping"}] ELSE d[i]]

Ahead(from, to) == (to - from) % SeqWrap

\* Pictures for output once the slice header has had its discarded.
DueWithoutRefs(d, dropped) == {i \in Held(d) \ dropped : d[i].flags = {"Output"}}
Due(d, dropped) == {i \in Held(d) \ dropped : "Output" \in d[i].flags}

\* Whether the sequence being decoded lets these pictures wait for more.
MayWaitOneLess(S, param) == param # NULL /\ Cardinality(S) < param.reorder
MayWait(S, param) == param # NULL /\ Cardinality(S) <= param.reorder

\* A picture goes to the caller, and its frame if no reference needs it.
TakeOutWhole(d, i) == Unref(d, {i}, AllFlags)
TakeOut(d, i) == Unref(d, {i}, {"Output", "Bumping"})

\* ff_hevc_output_frame: sequences from seqOutput on lose what the slice
\* header discards, up to one with a picture for output or to seqDecode; there
\* the least picture goes unless more are to be waited for.
OutputFrame(d, seq, p, discard, param, flush) ==
    LET dropped == {i \in Held(d) : discard /\ "Bumping" \notin d[i].flags /\ d[i].poc # p}
        due == Due(d, dropped)
        distance(i) == Ahead(seqOutput, d[i].seq)
        last == Ahead(seqOutput, seq)
        k == Least({last} \cup {distance(i) : i \in {j \in due : distance(j) <= last}})
        first == {i \in due : distance(i) = k}
        kept == Unref(d, {i \in dropped : distance(i) <= k}, {"Output"})
        out == CHOOSE i \in first : \A j \in first : d[i].poc <= d[j].poc
    IN  IF first = {} \/ (~flush /\ k = last /\ MayWait(first, param))
        THEN [seqOutput |-> (seqOutput + k) % SeqWrap, dpb |-> kept, frame |-> NULL]
        ELSE [seqOutput |-> d[out].seq, dpb |-> TakeOut(kept, out),
              frame |-> [seq |-> d[out].seq, poc |-> d[out].poc]]

\* ff_hevc_compute_poc
ComputePoc(type, lsb) ==
    LET prevLsb == IF pocTid0 >= 0 THEN pocTid0 % MaxPocLsb ELSE -((-pocTid0) % MaxPocLsb)
        prevMsb == pocTid0 - prevLsb
        msb == IF type = "BLA" THEN 0
               ELSE IF lsb < prevLsb /\ prevLsb - lsb >= MaxPocLsb \div 2 THEN prevMsb + MaxPocLsb
               ELSE IF lsb > prevLsb /\ lsb - prevLsb > MaxPocLsb \div 2 THEN prevMsb - MaxPocLsb
               ELSE prevMsb
    IN  msb + lsb

-----------------------------------------------------------------------------
(* A packet: decode_nal_units and hevc_decode_frame.                       *)

Init ==
    /\ dpb = [i \in Slots |-> NULL]
    /\ seqDecode = 0 /\ seqOutput = 0
    /\ poc = 0 /\ pocTid0 = 0 /\ maxRA = RAMax
    /\ noOutput = FALSE /\ ref = NULL /\ rps = <<>> /\ firstType = NULL
    /\ eos = FALSE
    /\ listSps = NULL /\ sps = NULL /\ spsCurrent = FALSE /\ pps = FALSE
    /\ output = NULL /\ packet = "none" /\ draining = FALSE
    /\ decoded = {} /\ lastPoc = NULL

\* The packet ends, with its last NAL unit or the first that fails, and
\* output_frame goes to the caller; what only slices read is forgotten.  The
\* NAL units that were not reached may include the end of a sequence, too.
Return(eosSeen) ==
    /\ packet' = "none" /\ output' = NULL
    /\ ref' = NULL /\ rps' = <<>> /\ firstType' = NULL
    /\ eos' \in eosSeen
GiveUp == Return(UnreadEos)

\* The packet is split into NAL units, or given up if that fails.
StartPacket ==
    /\ packet = "none" /\ ~draining
    /\ \/ packet' = "params" /\ UNCHANGED <<ref, rps, firstType, output, eos>>
       \/ GiveUp
    /\ UNCHANGED <<dpb, seqDecode, seqOutput, poc, pocTid0, maxRA, noOutput,
                   listSps, sps, spsCurrent, pps, draining, decoded, lastPoc>>

\* ff_hevc_decode_nal_sps: a repeated set is kept; another takes its place
\* and the picture parameter sets that depend on the old one go.  The old one
\* stays active until the next slice, if memory allows.
DecodeSps ==
    /\ packet = "params"
    /\ \E s \in SPSs :
        /\ s # listSps /\ [old |-> listSps, new |-> s] \in Follows
        /\ listSps' = s /\ pps' = FALSE /\ spsCurrent' = FALSE
        /\ sps' \in IF spsCurrent THEN {sps, NULL} ELSE {sps}
    /\ UNCHANGED <<dpb, seqDecode, seqOutput, poc, pocTid0, maxRA, noOutput, ref, rps, firstType,
                   eos, output, packet, draining, decoded, lastPoc>>

\* ff_hevc_decode_nal_pps
DecodePps ==
    /\ packet = "params" /\ listSps # NULL /\ ~pps
    /\ pps' = TRUE
    /\ UNCHANGED <<dpb, seqDecode, seqOutput, poc, pocTid0, maxRA, noOutput, ref, rps, firstType,
                   eos, listSps, sps, spsCurrent, output, packet, draining, decoded, lastPoc>>

\* Order counts a slice of the type can have, within the bounds.
Counts(type) == Pocs \cap IF type = "IDR" THEN {0}
                          ELSE {ComputePoc(type, lsb) : lsb \in 0..MaxPocLsb - 1}

Begins(type) == type \in {"IDR", "BLA"}

\* Up to the parameter sets, the header of a first slice begins a sequence.
OpenedUnmasked(type) == IF Begins(type) THEN seqDecode + 1 ELSE seqDecode
Opened(type) == IF Begins(type) THEN (seqDecode + 1) % SeqWrap ELSE seqDecode
OpenedDpb(type) == IF type = "IDR" THEN ClearRefs(dpb) ELSE dpb

\* A new sequence parameter set begins one, too.
Activated(type) == IF spsCurrent THEN Opened(type) ELSE (Opened(type) + 1) % SeqWrap
ActivatedDpb(type) == IF spsCurrent THEN OpenedDpb(type) ELSE ClearRefs(OpenedDpb(type))
Resized == sps # NULL /\ (sps.size # listSps.size \/ sps.buffering # listSps.buffering)
Discards(type, discard) ==
    \/ type = "CRA" /\ eos
    \/ /\ type \in IRAP /\ discard
       /\ (spsCurrent \/ type = "CRA" \/ ~Resized)

Anchors(type) == type \notin {"TRAIL_N", "RASL_N", "RASL_R"}

\* max_ra before and after it takes the kind of the picture into account.
OpenedRA(type) == IF Begins(type) THEN RAMax ELSE maxRA
ActivatedRA(type) == IF spsCurrent THEN OpenedRA(type) ELSE RAMax
ReachedRA(type, p, ra) ==
    IF ra = RAMax /\ type \in {"CRA", "BLA"} THEN p
    ELSE IF ra = RAMax /\ type = "IDR" THEN RAMin
    ELSE IF type = "RASL_R" /\ p > ra THEN RAMin ELSE ra
Skipped(type, p, ra) == type \in {"RASL_R", "RASL_N"} /\ p <= ra

\* History: order counts of the sequence that is decoded once it is seq.
DecodedIn(seq) == IF seq = seqDecode THEN decoded ELSE {}

\* The stream keeps the promise of its parameter sets: a picture follows, in
\* decoding order, at most reorder pictures it precedes in output order.
Promised(p, seq, out) == out =>
    /\ p \notin DecodedIn(seq)
    /\ Cardinality({q \in DecodedIn(seq) : q > p}) <= listSps.reorder

\* Bound: so many sequences ahead of the one being output, while pictures of
\* them are held.
Within(seq) == LET ahead == Ahead(seqOutput, seqDecode) + Ahead(seqDecode, seq)
               IN  ahead <= IF Held(dpb) = {} THEN SeqWrap - 1 ELSE MaxAhead

\* The first slice of a picture is refused before it names a parameter set.
SliceWithoutPps(type, discard) ==
    /\ ~pps
    /\ Within(Opened(type))
    /\ seqDecode' = Opened(type) /\ dpb' = OpenedDpb(type) /\ maxRA' = OpenedRA(type)
    /\ noOutput' = (type \in IRAP /\ discard)
    /\ decoded' = DecodedIn(seqDecode')
    /\ GiveUp
    /\ UNCHANGED <<seqOutput, poc, pocTid0, listSps, sps, spsCurrent, pps, draining, lastPoc>>

\* set_sps cannot allocate its tables.
ActivationFails(type, discard) ==
    /\ pps /\ ~spsCurrent
    /\ Within(Opened(type))
    /\ seqDecode' = Opened(type) /\ dpb' = ActivatedDpb(type) /\ maxRA' = OpenedRA(type)
    /\ noOutput' = Discards(type, discard)
    /\ sps' = NULL
    /\ decoded' = DecodedIn(seqDecode')
    /\ GiveUp
    /\ UNCHANGED <<seqOutput, poc, pocTid0, listSps, spsCurrent, pps, draining, lastPoc>>

\* The header of a first slice, as far as the parameter sets.
Activate(type, discard) ==
    /\ pps
    /\ Within(Activated(type))
    /\ seqDecode' = Activated(type)
    /\ noOutput' = Discards(type, discard)
    /\ sps' = listSps /\ spsCurrent' = TRUE
    /\ UNCHANGED <<listSps, pps, draining>>

\* As far as the order count of the picture.
Place(type, discard, p) ==
    /\ Activate(type, discard)
    /\ poc' = p
    /\ pocTid0' = IF Anchors(type) THEN p ELSE pocTid0

\* The header is found broken before or after the order count.
Broken(type) ==
    /\ dpb' = ActivatedDpb(type) /\ maxRA' = ActivatedRA(type)
    /\ decoded' = DecodedIn(seqDecode')
    /\ GiveUp
    /\ UNCHANGED <<seqOutput, lastPoc>>
SliceBroken(type, discard) == Activate(type, discard) /\ Broken(type) /\ UNCHANGED <<poc, pocTid0>>
PlacedSliceBroken(type, discard, p) == Place(type, discard, p) /\ Broken(type)

\* A leading picture of a random access point cannot be decoded.
SkipSlice(type, discard, p) ==
    /\ Place(type, discard, p)
    /\ Skipped(type, p, ActivatedRA(type))
    /\ dpb' = ActivatedDpb(type) /\ maxRA' = ActivatedRA(type)
    /\ decoded' = DecodedIn(seqDecode')
    /\ packet' = "slices"
    /\ UNCHANGED <<seqOutput, ref, rps, firstType, eos, output, lastPoc>>

\* hevc_frame_start: memory or slots run out, or the order count is taken.
NoNewRef(type, discard, p) ==
    /\ Place(type, discard, p)
    /\ ~Skipped(type, p, ActivatedRA(type))
    /\ dpb' = ActivatedDpb(type) /\ maxRA' = ReachedRA(type, p, ActivatedRA(type))
    /\ decoded' = DecodedIn(seqDecode')
    /\ GiveUp
    /\ UNCHANGED <<seqOutput, lastPoc>>

\* The buffer with the new picture and its references.
Referenced(type, refs, d, cur, seq, p, out) ==
    LET new == NewRef(d, cur, seq, p, out)
    IN  IF type = "IDR"
        THEN {[ok |-> TRUE, d |-> new, rps |-> <<>>]}
        ELSE FrameRps(new, refs, cur, seq, p)

Output(o) ==
    /\ dpb' = o.dpb /\ seqOutput' = o.seqOutput
    /\ lastPoc' = IF o.frame # NULL THEN o.frame.poc
                  ELSE IF o.seqOutput # seqOutput THEN NULL ELSE lastPoc

\* hevc_frame_start and the first slice of a picture.
StartPicture(type, discard, p, refs, out) ==
    /\ Place(type, discard, p)
    /\ Promised(p, Activated(type), out)
    /\ ~Skipped(type, p, ActivatedRA(type))
    /\ ~Duplicate(ActivatedDpb(type), Activated(type), p)
    /\ Vacant(ActivatedDpb(type)) # {}
    /\ maxRA' = ReachedRA(type, p, ActivatedRA(type))
    /\ decoded' = DecodedIn(Activated(type)) \cup IF out THEN {p} ELSE {}
    /\ \E d \in {ActivatedDpb(type)} : \E cur \in {Least(Vacant(d))} :
       \E r \in Referenced(type, refs, d, cur, Activated(type), p, out) :
        \/ /\ ~r.ok
           /\ dpb' = r.d /\ GiveUp
           /\ UNCHANGED <<seqOutput, lastPoc>>
        \/ /\ r.ok
           /\ \E b \in {IF type \in IRAP THEN r.d ELSE Bump(r.d, p, listSps)} :
              \E o \in {OutputFrame(b, Activated(type), p, noOutput', listSps, FALSE)} :
                /\ Output(o)
                /\ \/ /\ packet' = "slices" /\ output' = o.frame
                      /\ ref' = cur /\ rps' = r.rps /\ firstType' = type
                      /\ UNCHANGED eos
                   \/ o.frame # NULL /\ GiveUp   \* av_frame_ref finds no memory

\* A slice that does not begin a picture, or whose beginning was lost.
NextSlice(type, discard) ==
    /\ packet # "none"
    /\ noOutput' = ((type \in IRAP /\ discard) \/ (type = "CRA" /\ eos /\ pps))
    /\ \/ (~pps \/ ~spsCurrent) /\ GiveUp /\ UNCHANGED <<poc, pocTid0, maxRA>>
       \/ /\ pps /\ spsCurrent
          /\ poc' = IF type = "IDR" THEN 0 ELSE poc
          /\ pocTid0' = IF Anchors(type) THEN poc' ELSE pocTid0
          /\ maxRA' = ReachedRA(type, poc', maxRA)
          /\ IF ref # NULL /\ type # firstType /\ ~Skipped(type, poc', maxRA)
             THEN GiveUp ELSE UNCHANGED <<packet, output, ref, rps, firstType, eos>>
    /\ UNCHANGED <<dpb, seqDecode, seqOutput, listSps, sps, spsCurrent, pps, draining, decoded, lastPoc>>

\* NAL_EOS_NUT, NAL_EOB_NUT
EndSequence ==
    /\ packet # "none"
    /\ Within((seqDecode + 1) % SeqWrap)
    /\ seqDecode' = (seqDecode + 1) % SeqWrap
    /\ maxRA' = RAMax /\ decoded' = {}
    /\ Return({TRUE})
    /\ UNCHANGED <<dpb, seqOutput, poc, pocTid0, noOutput, listSps, sps, spsCurrent, pps, draining, lastPoc>>

EndPacket ==
    /\ packet # "none"
    /\ Return({FALSE})
    /\ UNCHANGED <<dpb, seqDecode, seqOutput, poc, pocTid0, maxRA, noOutput, listSps, sps, spsCurrent, pps,
                   draining, decoded, lastPoc>>

\* hevc_decode_frame of an empty packet.
Drain ==
    /\ packet = "none"
    /\ draining' = TRUE
    /\ \E o \in {OutputFrame(dpb, seqDecode, poc, noOutput, sps, TRUE)} : Output(o)
    /\ UNCHANGED <<seqDecode, poc, pocTid0, maxRA, noOutput, ref, rps, firstType, stream, output, packet, decoded>>

FirstSlice ==
    /\ packet = "params"
    /\ \E type \in NalTypes : \E discard \in IF type \in IRAP THEN BOOLEAN ELSE {FALSE} :
        \/ SliceWithoutPps(type, discard)
        \/ ActivationFails(type, discard)
        \/ SliceBroken(type, discard)
        \/ \E p \in Counts(type) :
            \/ PlacedSliceBroken(type, discard, p)
            \/ SkipSlice(type, discard, p)
            \/ NoNewRef(type, discard, p)
            \/ \E refs \in IF type = "IDR" THEN {<<>>} ELSE RefSets, out \in BOOLEAN :
                StartPicture(type, discard, p, refs, out)

Next ==
    \/ StartPacket \/ DecodeSps \/ DecodePps
    \/ FirstSlice
    \/ \E type \in NalTypes : \E discard \in IF type \in IRAP THEN BOOLEAN ELSE {FALSE} : NextSlice(type, discard)
    \/ EndSequence \/ EndPacket
    \/ Drain

Spec == Init /\ [][Next]_vars

-----------------------------------------------------------------------------
TypeOK ==
    /\ dpb \in [Slots -> Frames \cup {NULL}]
    /\ seqDecode \in 0..SeqWrap - 1 /\ seqOutput \in 0..SeqWrap - 1
    /\ poc \in Pocs /\ pocTid0 \in Pocs /\ maxRA \in RAMin..RAMax
    /\ noOutput \in BOOLEAN /\ eos \in BOOLEAN
    /\ ref \in Slots \cup {NULL} /\ firstType \in NalTypes \cup {NULL}
    /\ rps \in Seq([slot : Slots, poc : Int, list : ListNames])
    /\ listSps \in SPSs \cup {NULL} /\ sps \in SPSs \cup {NULL}
    /\ spsCurrent \in BOOLEAN /\ pps \in BOOLEAN
    /\ output \in Outputs \cup {NULL}
    /\ packet \in {"none", "params", "slices"} /\ draining \in BOOLEAN
    /\ decoded \subseteq Pocs /\ lastPoc \in Pocs \cup {NULL}

\* The references slices of the current picture may name.
Usable == {e \in Range(rps) : e.list \in {"StCurrBef", "StCurrAft", "LtCurr"}}
Near(seq, counts) == \A i \in Held(dpb), p \in counts :
    dpb[i].seq = seq => (p - dpb[i].poc) \in 1 - MaxPocLsb..MaxPocLsb - 1

\* While a picture is decoded, every reference its slices may name is another
\* picture of its sequence that is kept for reference, and the very one the
\* slice header asked for as long as low order bits tell pictures apart:
\* discarding, bumping and output never take it away.
ReferencesLive == ref # NULL =>
    /\ dpb[ref] # NULL
    /\ \A e \in Usable :
        /\ dpb[e.slot] # NULL /\ e.slot # ref
        /\ dpb[e.slot].seq = dpb[ref].seq
        /\ dpb[e.slot].flags \cap RefFlags # {}
        /\ Near(dpb[ref].seq, {f.poc : f \in Usable}) => dpb[e.slot].poc = e.poc

Waiting == {i \in Held(dpb) : "Output" \in dpb[i].flags}

\* Pictures of a sequence are output once and in output order: no picture is
\* output before one that goes first, and none is left waiting behind it.
InOrder == [][lastPoc # NULL /\ seqOutput' = seqOutput =>
    /\ lastPoc' # NULL /\ lastPoc' >= lastPoc
    /\ \A i \in Waiting' : dpb'[i].seq = seqOutput' => dpb'[i].poc > lastPoc']_<<dpb, lastPoc, seqOutput>>

\* No picture is stranded: one that waits belongs to the sequence being output
\* or to one begun after it, also when the counters wrap.
NothingStranded == \A i \in Waiting : Ahead(seqOutput, dpb[i].seq) <= Ahead(seqOutput, seqDecode)

\* The slots of the picture buffer serve both ends: the pictures slices refer
\* to stay, and those to be output are not forgotten.
SlotsServe == TypeOK /\ ReferencesLive /\ NothingStranded
=============================================================================
