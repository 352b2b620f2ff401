----------------------------- MODULE MCMoneyGram -----------------------------
(* Instances of MoneyGram for TLC. *)
EXTENDS MoneyGram, TLC

Symmetry == Permutations(Drafts) \cup Permutations(Senders)
=============================================================================
