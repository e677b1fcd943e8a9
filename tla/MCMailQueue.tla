---------------------------- MODULE MCMailQueue ----------------------------
(* MailQueue for TLC.  The run checks liveness, so there is no symmetry. *)
EXTENDS MailQueue
=============================================================================
