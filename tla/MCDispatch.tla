----------------------------- MODULE MCDispatch -----------------------------
(* Instances of Dispatch for TLC. *)
EXTENDS DispatchInv, TLC

WorkerSymmetry == Permutations(Workers)
Symmetry == Permutations(Records) \cup Permutations(Workers)
=============================================================================
