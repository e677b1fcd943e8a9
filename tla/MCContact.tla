----------------------------- MODULE MCContact -----------------------------
(* Contact for TLC: links and slots are alike. *)
EXTENDS Contact, TLC

ContactSymmetry == Permutations(Links) \cup Permutations(Requests)
=============================================================================
