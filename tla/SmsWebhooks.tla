----------------------------- MODULE SmsWebhooks -----------------------------
(***************************************************************************)
(* The delivery webhooks (modules/webhooks, applyDeliveryReport) between   *)
(* the dispatch of SmsDispatch and the providers: Twilio, and Bird as      *)
(* compose.yaml deploys it, the mock server.  SmsDispatch lets a genuine   *)
(* report change a status in one step; here it is a signed request that    *)
(* may be repeated, reordered, altered or lost, that the controllers check *)
(* and that looks the message up before it updates it, several at a time.  *)
(*                                                                         *)
(* A signature is the pair of the secret and the text it was computed      *)
(* over.  For Twilio the text includes the callback URL, the same for      *)
(* every request of a deployment.  A request that is refused, answered 404 *)
(* or 409, or ignored leaves no trace, so it is no step.                   *)
(***************************************************************************)
EXTENDS SmsDispatch

CONSTANTS
  Handlers,      \* concurrent requests to the webhook routes
  RawStatuses,   \* the statuses providers report, in their own words
  Configured,    \* the providers whose webhook secret is set
  MaxReports     \* bound: how many different reports the providers issue

ASSUME WebhooksAssumption ==
  /\ Configured \subseteq RegisteredProviders
  /\ \A i \in 1..NumProviders : ProviderOrder[i] \in Configured
  /\ MaxReports \in Nat

VARIABLES
  handler,       \* a report that was validated and not yet written
  issued,        \* the reports the providers signed (the outside world)
  acked,         \* the reports answered 200 ok
  birdMessages   \* the mock's `messages`

webhookVars == <<handler, issued, acked, birdMessages>>
allVars == <<vars, webhookVars>>

\* A correlation id may be missing from a body.
Bodies == [id : Attempts \cup {None}, status : RawStatuses]

Signatures == [key : RegisteredProviders, text : Bodies]

HandlerStates == [msg : Messages, id : Attempts, read : Statuses, report : ReportStatuses]

ASSUME NoneIsNoRequest ==
  None \notin Bodies \cup Signatures \cup HandlerStates \cup Statuses \cup {NoMessage}

\* A report that waits to be written is about a message there is.
WebhooksTypeOK ==
  /\ TypeOK
  /\ handler \in [Handlers -> HandlerStates \cup {None}]
  /\ issued \subseteq Signatures
  /\ acked \subseteq Attempts \X ReportStatuses
  /\ birdMessages \subseteq Attempts

WebhooksInit ==
  /\ Init
  /\ handler = [h \in Handlers |-> None]
  /\ issued = {}
  /\ acked = {}
  /\ birdMessages = {}

-----------------------------------------------------------------------------
(* The providers.                                                           *)

Issue(provider, a, raw) ==
  LET report == [key |-> provider, text |-> [id |-> a, status |-> raw]] IN
  /\ report \in issued \/ Cardinality(issued) < MaxReports
  /\ issued' = issued \cup {report}
  /\ UNCHANGED <<vars, handler, acked, birdMessages>>

TwilioReports(a, raw) ==
  /\ a \in accepted
  /\ attempts[a].provider = "twilio"
  /\ Issue("twilio", a, raw)

CallsBird(w) ==
  worker[w].pc = "reserved" /\ attempts[worker[w].attempt].provider = "bird"

\* X-Mock-Force, or the mock cannot be reached.
Forces == {"none", "timeout", "retryable", "permanent", "unreachable"}

\* What the client gets: the answer to a stored message may be lost, or break off.
MockAnswers(force) ==
  CASE force = "timeout"     -> Thrown("AxiosError", {NoResponse}, {TRUE})
    [] force = "retryable"   -> Thrown("AxiosError", {503}, {FALSE})
    [] force = "permanent"   -> Thrown("AxiosError", {400}, {FALSE})
    [] force = "unreachable" -> Thrown("AxiosError", {NoResponse}, {FALSE})
    [] OTHER -> {s \in Sent : s.hasId}
                  \cup Thrown("AxiosError", {OkStatus, NoResponse}, BOOLEAN)

\* Mutant: the message is stored before the header is looked at.
BirdMockCall_storesFirst(w) ==
  /\ CallsBird(w)
  /\ \E force \in Forces \ {"unreachable"} : \E answer \in MockAnswers(force) :
       EndCall(w, answer, TRUE)
  /\ birdMessages' = birdMessages \cup {worker[w].attempt}
  /\ UNCHANGED <<status, retryRounds, providerMessageId, outbox, attempts,
                 resolutions, operator, handler, issued, acked>>

\* POST .../messages.  The client's request is complete, so that the header
\* decides whether the message is stored.
BirdMockCall(w) ==
  /\ CallsBird(w)
  /\ \E force \in Forces : \E answer \in MockAnswers(force) :
       /\ EndCall(w, answer, force = "none")
       /\ birdMessages' = IF force = "none" THEN birdMessages \cup {worker[w].attempt}
                                            ELSE birdMessages
  /\ UNCHANGED <<status, retryRounds, providerMessageId, outbox, attempts,
                 resolutions, operator, handler, issued, acked>>

\* POST /simulate-callback/:messageId, with a status of the caller's choice.
SimulateCallback(a, raw) ==
  /\ a \in birdMessages
  /\ Issue("bird", a, raw)

\* The mock keeps its messages in memory.
BirdMockRestart ==
  /\ birdMessages # {}
  /\ birdMessages' = {}
  /\ UNCHANGED <<vars, handler, issued, acked>>

-----------------------------------------------------------------------------
(* The routes.                                                              *)

Requests == [rawBody : Bodies \cup {None}, signature : issued \cup {None}]

\* The signature is recomputed with the configured secret over the text that
\* arrived, the callback URL and the sorted parameters for Twilio.
VerifyTwilioSignature(request) ==
  request.signature = [key |-> "twilio", text |-> request.rawBody]

VerifyBirdSignature(request) ==
  request.signature = [key |-> "bird", text |-> request.rawBody]

\* Configured (404), a raw body (400), signed (403), a MessageSid (400).
TwilioAccepts(request) ==
  /\ "twilio" \in Configured
  /\ request.rawBody # None
  /\ VerifyTwilioSignature(request)
  /\ request.rawBody.id # None

\* Mutant: the signature is not verified.
BirdAccepts_unsigned(request) ==
  /\ "bird" \in Configured
  /\ request.rawBody # None
  /\ request.rawBody.id # None

BirdAccepts(request) ==
  /\ "bird" \in Configured
  /\ request.rawBody # None
  /\ VerifyBirdSignature(request)
  /\ request.rawBody.id # None

Accepts(provider, request) ==
  \/ provider = "twilio" /\ TwilioAccepts(request)
  \/ provider = "bird" /\ BirdAccepts(request)

\* mapTwilioStatus and mapBirdStatus: any other status is ignored.
TerminalStatus(provider, raw) ==
  CASE provider = "twilio" /\ raw \in DOMAIN TwilioStatusMap -> TwilioStatusMap[raw]
    [] provider = "bird" /\ raw \in DOMAIN BirdStatusMap -> BirdStatusMap[raw]
    [] OTHER -> None

\* Mutant: a missing message is not noticed.
FindMessage_unchecked(h, id, report) ==
  /\ handler[h] = None
  /\ report # None
  /\ \E m \in Messages \cup {None} :
       /\ m # None => providerMessageId[m] = id /\ IsValidTransition(status[m], report)
       /\ handler' = [handler EXCEPT ![h] =
                        [msg |-> m, id |-> id, read |-> "SENT", report |-> report]]
  /\ UNCHANGED <<vars, issued, acked, birdMessages>>

\* applyDeliveryReport, the lookup and the validation.
FindMessage(h, id, report) ==
  /\ handler[h] = None
  /\ report # None
  /\ \E m \in Messages :
       /\ providerMessageId[m] = id
       /\ IsValidTransition(status[m], report)
       /\ handler' = [handler EXCEPT ![h] =
                        [msg |-> m, id |-> id, read |-> status[m], report |-> report]]
  /\ UNCHANGED <<vars, issued, acked, birdMessages>>

\* `duplicate`: the message holds the status already.
AcknowledgeRepeat(id, report) ==
  /\ \E m \in Messages : providerMessageId[m] = id /\ status[m] = report
  /\ acked' = acked \cup {<<id, report>>}
  /\ UNCHANGED <<vars, handler, issued, birdMessages>>

ReceiveReport(h, provider) ==
  \E request \in Requests :
    /\ Accepts(provider, request)
    /\ LET id == request.rawBody.id
           report == TerminalStatus(provider, request.rawBody.status)
       IN FindMessage(h, id, report) \/ AcknowledgeRepeat(id, report)

\* Mutant: the update is not conditional on the status that was read.
CommitReport_unguarded(h) ==
  LET r == handler[h] IN
  /\ r # None
  /\ SetStatus(r.msg, r.report)
  /\ acked' = acked \cup {<<r.id, r.report>>}
  /\ handler' = [handler EXCEPT ![h] = None]
  /\ UNCHANGED <<retryRounds, providerMessageId, outbox, attempts, resolutions,
                 worker, operator, accepted, cutShort, issued, birdMessages>>

\* applyDeliveryReport, the conditional update: `applied`.
CommitReport(h) ==
  LET r == handler[h] IN
  /\ r # None
  /\ status[r.msg] = r.read
  /\ SetStatus(r.msg, r.report)
  /\ acked' = acked \cup {<<r.id, r.report>>}
  /\ handler' = [handler EXCEPT ![h] = None]
  /\ UNCHANGED <<retryRounds, providerMessageId, outbox, attempts, resolutions,
                 worker, operator, accepted, cutShort, issued, birdMessages>>

\* Nothing is written: the update finds another status (409), or the request
\* dies with its transaction.
DropReport(h) ==
  /\ handler[h] # None
  /\ handler' = [handler EXCEPT ![h] = None]
  /\ UNCHANGED <<vars, issued, acked, birdMessages>>

-----------------------------------------------------------------------------

\* The rest of the service, with Bird behind the mock.
ServiceStep ==
  /\ \/ \E w \in Workers : (WorkerStep(w) /\ ~CallsBird(w)) \/ Abandon(w)
     \/ \E m \in Messages : MessageStep(m)
     \/ \E o \in Operators : OperatorStep(o)
  /\ UNCHANGED webhookVars

ProviderStep ==
  \/ \E w \in Workers : BirdMockCall(w)
  \/ \E a \in Attempts, raw \in RawStatuses :
       TwilioReports(a, raw) \/ SimulateCallback(a, raw)
  \/ BirdMockRestart

HandlerStep(h) ==
  \/ \E provider \in RegisteredProviders : ReceiveReport(h, provider)
  \/ CommitReport(h)
  \/ DropReport(h)

WebhooksNext == ServiceStep \/ ProviderStep \/ \E h \in Handlers : HandlerStep(h)

WebhooksSpec == WebhooksInit /\ [][WebhooksNext]_allVars

-----------------------------------------------------------------------------

\* A report the service has acknowledged is what the message shows from then on,
\* however many reports race and whatever else happens to the message: a provider
\* does not repeat an acknowledged report (applyDeliveryReport).
AckedIsHeld ==
  \A ack \in acked :
    \E m \in Messages : providerMessageId[m] = ack[1] /\ status[m] = ack[2]

\* A message shown as delivered or rejected was reported so by the provider that
\* took it, in that provider's own words and for that message's id: no altered,
\* misdirected or unsigned request gets through (the controllers, the status maps).
ReportedIsIssued ==
  \A m \in Messages : status[m] \in {"DELIVERED", "REJECTED"} =>
    \E r \in issued : /\ r.text.id = providerMessageId[m]
                      /\ r.key = attempts[r.text.id].provider
                      /\ TerminalStatus(r.key, r.text.status) = status[m]

\* Requests handled in two statements, and Bird behind its mock, do nothing that
\* SmsDispatch does not do in one: its theorems hold here.
ImplementsDispatch == Spec

\* README.md and docs/states.md: an ambiguous message waits until a webhook
\* resolves it.  The report on a call whose outcome is recorded finds its message.
CallbackFindsAwaiting ==
  \A r \in issued :
    /\ TerminalStatus(r.key, r.text.status) # None
    /\ attempts[r.text.id].outcome # "RESERVED"
    /\ status[attempts[r.text.id].msg] = "AWAITING_PROVIDER_RESULT"
    => \E m \in Messages : providerMessageId[m] = r.text.id

-----------------------------------------------------------------------------
(* Why it is safe.                                                          *)

\* What a provider reports on, it took.
IssuedAreTaken ==
  /\ \A r \in issued : r.text.id \in accepted /\ r.key = attempts[r.text.id].provider
  /\ \A a \in birdMessages : a \in accepted /\ attempts[a].provider = "bird"

\* A handler's message still carries the id it was found by, and a provider
\* issued the report.
HandlersAreInformed ==
  \A h \in Handlers : handler[h] # None =>
    /\ providerMessageId[handler[h].msg] = handler[h].id
    /\ IsValidTransition(handler[h].read, handler[h].report)
    /\ \E r \in issued : /\ r.text.id = handler[h].id
                         /\ TerminalStatus(r.key, r.text.status) = handler[h].report

WebhooksInv ==
  /\ WebhooksTypeOK /\ DeliveryInv /\ CorrelationInv /\ IdsAreSettled
  /\ IssuedAreTaken /\ HandlersAreInformed /\ AckedIsHeld /\ ReportedIsIssued

=============================================================================
