---------------------------- MODULE MCTwoFactor ----------------------------
(* TwoFactor for TLC: what is generated is alike, and so are the slots. *)
EXTENDS TwoFactor, TLC

TwoFactorSymmetry ==
  Permutations(Requests) \cup Permutations(MethodIds) \cup Permutations(Secrets)
    \cup Permutations(BackupCodes) \cup Permutations(Challenges)
=============================================================================
