--------------------------- MODULE MCWesternUnion ---------------------------
(* Instances of WesternUnion for TLC. *)
EXTENDS WesternUnionInv, TLC

MtcnSymmetry == Permutations(Mtcns)
RecordSymmetry == Permutations(Records) \cup Permutations(Mtcns)
=============================================================================
