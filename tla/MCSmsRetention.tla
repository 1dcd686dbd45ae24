--------------------------- MODULE MCSmsRetention ----------------------------
(* The model-checking instance of SmsRetention.  Its run checks liveness, so *)
(* it names every message and purge and takes no symmetry.                   *)
EXTENDS SmsRetention

=============================================================================
