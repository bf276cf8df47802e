--------------------------- MODULE MCImageLoader ---------------------------
(***************************************************************************)
(* Small instances of ImageLoader: two uris, the first of them wanted at   *)
(* two sizes when a third key is given.                                    *)
(***************************************************************************)
EXTENDS ImageLoader, TLC

CONSTANTS a1, a2, b, uriA, uriB

MCUriOf == a1 :> uriA @@ a2 :> uriA @@ b :> uriB

Cached == {"disk", "memory"}

SafetyOptions   == {Cached \cup {"reset", "delay", "onFail"}}
LivenessOptions == {Cached \cup {"post"}}

SymmetricRequests == Permutations(Requests)

============================================================================
