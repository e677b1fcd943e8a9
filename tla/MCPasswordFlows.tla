-------------------------- MODULE MCPasswordFlows --------------------------
(* PasswordFlows for TLC: passwords, links and request slots are alike. *)
EXTENDS PasswordFlows, TLC

FlowSymmetry ==
  Permutations(Requests) \cup Permutations(Passwords) \cup Permutations(Links)
=============================================================================
