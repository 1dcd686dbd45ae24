---------------------------- MODULE MCSmsPipeline ----------------------------
(* Model-checking instances of SmsPipeline. *)
EXTENDS SmsPipeline, TLC

TwilioOnly == <<"twilio">>

\* Sound for the safety runs.  Attempts are left out: FreshAttempt chooses one.
WorkersAndRelays == Permutations(Workers) \cup Permutations(Relays)

=============================================================================
