--------------------------- MODULE ProviderOutcomes ---------------------------
(***************************************************************************)
(* What the worker makes of a provider's answer: the strategies            *)
(* (modules/providers/strategies), the normalization of what their clients *)
(* throw (errors/provider-error) and the worker's own classification.      *)
(* Constant operators only.                                                *)
(***************************************************************************)
EXTENDS Naturals

RegisteredProviders == {"twilio", "bird"}

\* Statuses of error responses: each side of each test, and the mock's.
HttpStatuses == {400, 408, 429, 499, 500, 503}
OkStatus == 200
NoResponse == 0

IsRetryableHttpStatus(status) == status \in {408, 429} \/ status >= 500

(* An answer is what a client returns or throws.                            *)

Sent == [thrown : {"nothing"}, hasId : BOOLEAN, status : {NoResponse}, timedOut : {FALSE}]

Thrown(error, statuses, timeouts) ==
  [thrown : {error}, hasId : {FALSE}, status : statuses, timedOut : timeouts]

\* The clients' transport (axios, under the Twilio SDK too).  The error carries
\* the status of a response as soon as that has arrived: also when the rest of
\* the response, a success's included, never does.
TransportErrors ==
  Thrown("AxiosError", HttpStatuses \cup {OkStatus, NoResponse}, BOOLEAN)

\* The Twilio SDK turns a complete error response into a RestException.
TwilioAnswers ==
  Sent \cup Thrown("RestException", HttpStatuses, {FALSE})
       \cup TransportErrors
       \cup Thrown("other", {NoResponse}, {FALSE})

BirdAnswers == Sent \cup TransportErrors \cup Thrown("other", {NoResponse}, {FALSE})

AnswersOf(provider) == IF provider = "twilio" THEN TwilioAnswers ELSE BirdAnswers

\* isTwilioRestException asks for a numeric `status`, which an axios error with a
\* response has as well, so the timeout codes are looked at only without one.
Kind(answer) ==
  CASE answer.thrown # "nothing" /\ answer.status # NoResponse -> "http"
    [] answer.thrown = "AxiosError" /\ answer.status = NoResponse /\ answer.timedOut -> "timeout"
    [] answer.thrown = "AxiosError" /\ answer.status = NoResponse /\ ~answer.timedOut -> "network"
    [] OTHER -> "unknown"

IsRetryable(answer) ==
  \/ Kind(answer) \in {"timeout", "network"}
  \/ Kind(answer) = "http" /\ IsRetryableHttpStatus(answer.status)

\* Mutant: only a timeout leaves the outcome unknown.
IsAmbiguous_timeoutsOnly(answer) == Kind(answer) = "timeout"

IsAmbiguous(answer) == Kind(answer) # "http"

\* What the worker can tell apart of a SendSmsResult.
Results == {"accepted", "ambiguous", "retryable", "permanent"}

\* A success without an id cannot be correlated, so it counts as unconfirmed.
Classify(answer) ==
  CASE answer.thrown = "nothing" /\ answer.hasId -> "accepted"
    [] answer.thrown = "nothing" /\ ~answer.hasId -> "ambiguous"
    [] answer.thrown # "nothing" /\ IsAmbiguous(answer) -> "ambiguous"
    [] answer.thrown # "nothing" /\ ~IsAmbiguous(answer) /\ IsRetryable(answer) -> "retryable"
    [] OTHER -> "permanent"

-----------------------------------------------------------------------------
(* The provider's side: it took a message it answered with an id, and it did *)
(* not take one it answered with an error in time.  Otherwise either.         *)

HasTaken(answer) == answer.thrown = "nothing" /\ answer.hasId

HasRefused(answer) == answer.status \in HttpStatuses /\ ~answer.timedOut

\* The response broke off after its status.
IsCutShort(answer) == answer.status # NoResponse /\ ~HasRefused(answer)

=============================================================================
