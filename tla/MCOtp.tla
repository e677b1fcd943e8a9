------------------------------- MODULE MCOtp -------------------------------
(* Otp for TLC: codes, slots, users and purposes are alike. *)
EXTENDS Otp, TLC

OtpSymmetry ==
  Permutations(Codes) \cup Permutations(Requests) \cup Permutations(Purposes)
=============================================================================
