-------------------------- MODULE MCLruMemoryCache --------------------------
(* LruMemoryCache with bitmaps of 0, 1 and 2 bytes. *)
EXTENDS LruHistory, TLC

CONSTANTS k1, k2, k3, zero, one, two

MCSizeOf == zero :> 0 @@ one :> 1 @@ two :> 2
=============================================================================
