----------------------- MODULE MCProviderRateLimiter -------------------------
(* The model-checking instance of ProviderRateLimiter.  Its run checks       *)
(* liveness, so it names every call and provider and takes no symmetry.      *)
EXTENDS ProviderRateLimiter

=============================================================================
