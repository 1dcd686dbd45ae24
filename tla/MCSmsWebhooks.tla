---------------------------- MODULE MCSmsWebhooks ----------------------------
(* Model-checking instances of SmsWebhooks. *)
EXTENDS SmsWebhooks, TLC

TwilioThenBird == <<"twilio", "bird">>
Both == {"twilio", "bird"}

\* Sound for safety: no definition tells two of a kind apart.
Symmetry == Permutations(Messages) \cup Permutations(Workers) \cup Permutations(Attempts)
            \cup Permutations(Handlers)

=============================================================================
