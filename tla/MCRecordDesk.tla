---------------------------- MODULE MCRecordDesk ----------------------------
(* Instances of RecordDesk for TLC. *)
EXTENDS RecordDesk, TLC

Symmetry == Permutations(WuRecords) \cup Permutations(Codes)
=============================================================================
