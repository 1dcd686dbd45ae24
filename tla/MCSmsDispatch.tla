---------------------------- MODULE MCSmsDispatch ----------------------------
(* Model-checking instances of SmsDispatch. *)
EXTENDS SmsDispatch, TLC

\* Provider orders used by the configurations.
TwilioOnly == <<"twilio">>
TwilioThenBird == <<"twilio", "bird">>

\* Sound for the safety runs: no definition tells two messages, workers,
\* operators or attempts apart.
Symmetry == Permutations(Messages) \cup Permutations(Workers)
            \cup Permutations(Operators) \cup Permutations(Attempts)

=============================================================================
