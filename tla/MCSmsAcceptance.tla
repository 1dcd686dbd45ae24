--------------------------- MODULE MCSmsAcceptance ---------------------------
(* The model-checking instance of SmsAcceptance.  Its run checks liveness,   *)
(* so it names every request and takes no symmetry.                          *)
EXTENDS SmsAcceptance

=============================================================================
