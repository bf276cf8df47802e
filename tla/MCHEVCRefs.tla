----------------------------- MODULE MCHEVCRefs -----------------------------
(* Small instances of HEVCRefs. *)
EXTENDS HEVCRefs

\* What the parameter sets of this build say, and one that lets pictures wait.
AtOnce == [size |-> 1, buffering |-> 1, reorder |-> 0]
Waits == [size |-> 1, buffering |-> 2, reorder |-> 1]

MCSPSs == {AtOnce, Waits}
MCFollows == {[old |-> NULL, new |-> AtOnce], [old |-> AtOnce, new |-> Waits]}
MCNalTypes == {"IDR", "TRAIL_R", "CRA", "RASL_R"}
MCRefSets == {<<[delta |-> 1, list |-> "StCurrAft", flag |-> "ShortRef"]>>}
=============================================================================
