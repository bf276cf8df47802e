-------------------------------- MODULE Sums --------------------------------
(***************************************************************************)
(* The sum of a function to the naturals, as the number of pairs <<x, i>>  *)
(* with i among the first f[x] numbers, so that the facts about finite     *)
(* sets are facts about sums.                                              *)
(***************************************************************************)
EXTENDS Integers, FiniteSets

Cells(f) == UNION {{x} \X (1..f[x]) : x \in DOMAIN f}

SumOf(f) == Cardinality(Cells(f))
=============================================================================
