----------------------------- MODULE MCSessions -----------------------------
(* Sessions for TLC: the request slots are alike. *)
EXTENDS Sessions, TLC

RequestSymmetry == Permutations(Requests)
=============================================================================
