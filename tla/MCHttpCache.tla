---------------------------- MODULE MCHttpCache ----------------------------
(* HttpCache for TLC.  The run checks liveness, so there is no symmetry. *)
EXTENDS HttpCache
=============================================================================
