-------------------------- MODULE SmsWebhooksProofs --------------------------
(***************************************************************************)
(* Theorems about SmsWebhooks, for every set of handlers, statuses and     *)
(* configured providers: it implements SmsDispatch, an acknowledged report *)
(* stays, and nothing is shown that no provider reported.                  *)
(***************************************************************************)
EXTENDS SmsWebhooks, SmsDispatchProofs

-----------------------------------------------------------------------------
(* What the steps of SmsDispatch leave to the callbacks.                    *)

\* The provider's id on a row is never replaced.
LEMMA IdStays ==
  ASSUME DeliveryInv, IdsAreSettled, [Next]_vars, NEW m \in Messages,
         providerMessageId[m] # None
  PROVE  providerMessageId'[m] = providerMessageId[m]
  <1>1. status[m] \in Settled
    BY DEF IdsAreSettled
  <1>2. ASSUME NEW w \in Workers, FinalizeAccepted(w) PROVE Msg(w) # m
    BY <1>1, <1>2 DEF FinalizeAccepted, CanFinalize, Settled
  <1>3. ASSUME NEW o \in Operators, ResolveTwilioAttempt(o) PROVE operator[o].msg # m
    BY <1>1, <1>3 DEF ResolveTwilioAttempt, Settled
  <1>4. \/ UNCHANGED providerMessageId
        \/ \E w \in Workers : FinalizeAccepted(w)
        \/ \E o \in Operators : ResolveTwilioAttempt(o)
    BY EnvironmentActs
    DEF Next, WorkerStep, BeginProcessing, ReserveProviderAttempt, ReservationLost,
        CallProvider, FinalizeAmbiguous, FinalizeFailed, FinalizeLost, ValidateOutcome,
        OutcomeInvalid, ScheduleRetry, MarkFatalFailure, OutcomeLost, Abandon, MessageStep,
        CreateMessage, RecoverStaleProcessing, ExpireAmbiguousOutcome, ResetForRequeue,
        ApplyDeliveryReport, OperatorStep, ValidateResolution, ResolutionLost, vars
  <1>5. ASSUME NEW w \in Workers, FinalizeAccepted(w)
        PROVE  providerMessageId'[m] = providerMessageId[m]
    BY <1>2, <1>5 DEF FinalizeAccepted, DeliveryInv, TypeOK
  <1>6. ASSUME NEW o \in Operators, ResolveTwilioAttempt(o)
        PROVE  providerMessageId'[m] = providerMessageId[m]
    BY <1>3, <1>6 DEF ResolveTwilioAttempt, DeliveryInv, TypeOK
  <1> QED
    BY <1>4, <1>5, <1>6

\* By the status machine a reported message keeps its status.
LEMMA ReportedStays ==
  ASSUME DeliveryInv, [Next]_vars, NEW m \in Messages, status[m] \in ReportStatuses
  PROVE  status'[m] = status[m]
  <1>1. [StatusMachine!Next]_status
    <2>1. UNCHANGED vars => UNCHANGED status
      BY DEF vars
    <2> QED
      BY <2>1, WorkerFollowsTable, EnvironmentFollowsTable DEF Next, DeliveryInv
  <1>2. ASSUME NEW n \in Messages, StatusMachine!Advance(n) PROVE status'[m] = status[m]
    BY <1>2 DEF StatusMachine!Advance, StatusMachine!Outgoing, ReportStatuses,
                StatusMachine!TransitionTable, DeliveryInv, TypeOK
  <1> QED
    BY <1>1, <1>2 DEF StatusMachine!Next, StatusMachine!Create, StatusMachine!Requeue,
                      ReportStatuses, StatusMachine!NoMessage, DeliveryInv, TypeOK

\* Only a callback makes a message DELIVERED or REJECTED.
LEMMA ServiceReportsNothing ==
  ASSUME DeliveryInv, ServiceStep \/ (\E w \in Workers : CallProvider(w)),
         NEW m \in Messages, status'[m] \in {"DELIVERED", "REJECTED"}
  PROVE  status[m] = status'[m]
  <1> DEFINE Others == {"QUEUED", "PROCESSING", "AWAITING_PROVIDER_RESULT", "SENT",
                        "RETRY_SCHEDULED", "FATAL_FAILURE", "UNDELIVERED"}
  <1>1. ASSUME NEW w \in Workers, WorkerStep(w) \/ Abandon(w)
        PROVE  UNCHANGED status \/ \E n \in Messages, s \in Others : SetStatus(n, s)
    <2>1. worker[w].pc # "idle" => Msg(w) \in Messages
      BY DEF DeliveryInv, CallsAreOwned, Msg
    <2> QED
      BY <1>1, <2>1
      DEF WorkerStep, BeginProcessing, ReserveProviderAttempt, ReservationLost,
          CallProvider, FinalizeAccepted, FinalizeAmbiguous, FinalizeFailed, FinalizeLost,
          ValidateOutcome, OutcomeInvalid, ScheduleRetry, MarkFatalFailure, OutcomeLost,
          Abandon
  <1>2. ASSUME NEW n \in Messages, MessageStep(n)
        PROVE  \E s \in Others : SetStatus(n, s)
    BY <1>2 DEF MessageStep, CreateMessage, RecoverStaleProcessing,
                ExpireAmbiguousOutcome, ResetForRequeue
  <1>3. ASSUME NEW o \in Operators, OperatorStep(o)
        PROVE  UNCHANGED status \/ \E n \in Messages, s \in Others : SetStatus(n, s)
    <2>1. operator[o] # None => operator[o].msg \in Messages
      BY DEF DeliveryInv, TypeOK, ResolutionRequests
    <2> QED
      BY <1>3, <2>1 DEF OperatorStep, ValidateResolution, ResolveTwilioAttempt, ResolutionLost
  <1>4. UNCHANGED status \/ \E n \in Messages, s \in Others : SetStatus(n, s)
    BY <1>1, <1>2, <1>3 DEF ServiceStep, WorkerStep
  <1> QED
    BY <1>4 DEF SetStatus, DeliveryInv, TypeOK

-----------------------------------------------------------------------------
(* Refinement.                                                              *)

LEMMA StatusMaps ==
  ASSUME NEW p \in RegisteredProviders, NEW raw
  PROVE  /\ TerminalStatus(p, raw) \in ReportStatuses \cup {None}
         /\ TerminalStatus(p, raw) # None =>
              \/ /\ p = "twilio" /\ raw \in DOMAIN TwilioStatusMap
                 /\ TerminalStatus(p, raw) = TwilioStatusMap[raw]
              \/ /\ p = "bird" /\ raw \in DOMAIN BirdStatusMap
                 /\ TerminalStatus(p, raw) = BirdStatusMap[raw]
  <1>1. /\ \A x \in DOMAIN TwilioStatusMap : TwilioStatusMap[x] \in ReportStatuses
        /\ \A x \in DOMAIN BirdStatusMap : BirdStatusMap[x] \in ReportStatuses
    BY DEF TwilioStatusMap, BirdStatusMap, ReportStatuses
  <1> HIDE DEF TwilioStatusMap, BirdStatusMap
  <1> QED
    BY <1>1 DEF TerminalStatus, RegisteredProviders

\* What the mock does, a provider may do.
LEMMA MockIsProvider ==
  ASSUME NEW w \in Workers, BirdMockCall(w)
  PROVE  CallProvider(w)
  <1>1. PICK force \in Forces : \E answer \in MockAnswers(force) :
          EndCall(w, answer, force = "none")
    BY DEF BirdMockCall
  <1>2. PICK answer \in MockAnswers(force), taken \in BOOLEAN :
          taken = (force = "none") /\ EndCall(w, answer, taken)
    BY <1>1
  <1>3. answer \in BirdAnswers
    <2>1. \A s \in HttpStatuses \cup {OkStatus, NoResponse} : \A t \in BOOLEAN :
            Thrown("AxiosError", {s}, {t}) \subseteq BirdAnswers
      BY DEF Thrown, TransportErrors, BirdAnswers
    <2>2. Thrown("AxiosError", {OkStatus, NoResponse}, BOOLEAN) \subseteq BirdAnswers
      BY DEF Thrown, TransportErrors, BirdAnswers
    <2>3. Sent \subseteq BirdAnswers
      BY DEF BirdAnswers
    <2>4. 503 \in HttpStatuses /\ 400 \in HttpStatuses
      BY DEF HttpStatuses
    <2> HIDE DEF Thrown
    <2> QED
      BY <1>2, <2>1, <2>2, <2>3, <2>4 DEF Forces, MockAnswers
  <1>4. (HasTaken(answer) => taken) /\ (HasRefused(answer) => ~taken)
    <2>1. CASE force = "none"
      <3>1. answer \in Sent \cup Thrown("AxiosError", {OkStatus, NoResponse}, BOOLEAN)
        BY <1>2, <2>1 DEF MockAnswers
      <3>2. answer.status \in {OkStatus, NoResponse}
        BY <3>1 DEF Sent, Thrown
      <3>3. answer.status \notin HttpStatuses
        BY <3>2 DEF OkStatus, NoResponse, HttpStatuses
      <3> QED
        BY <1>2, <2>1, <3>3 DEF HasRefused
    <2>2. CASE force # "none"
      <3>1. \/ answer \in Thrown("AxiosError", {NoResponse}, {TRUE})
            \/ answer \in Thrown("AxiosError", {503}, {FALSE})
            \/ answer \in Thrown("AxiosError", {400}, {FALSE})
            \/ answer \in Thrown("AxiosError", {NoResponse}, {FALSE})
        BY <1>2, <2>2 DEF Forces, MockAnswers
      <3>2. answer.thrown # "nothing"
        BY <3>1 DEF Thrown
      <3> QED
        BY <1>2, <2>2, <3>2 DEF HasTaken
    <2> QED
      BY <2>1, <2>2
  <1>5. AnswersOf(attempts[worker[w].attempt].provider) = BirdAnswers
    BY DEF BirdMockCall, CallsBird, AnswersOf
  <1> QED
    BY <1>2, <1>3, <1>4, <1>5 DEF BirdMockCall, CallsBird, CallProvider

\* A handled request is a report of the message's provider.
LEMMA CommitIsReport ==
  ASSUME WebhooksInv, NEW h \in Handlers, CommitReport(h)
  PROVE  Next
  <1> USE DEF WebhooksInv
  <1>1. PICK m \in Messages, a \in Attempts, report \in ReportStatuses :
          /\ m = handler[h].msg /\ a = handler[h].id /\ report = handler[h].report
          /\ status[m] = handler[h].read
    BY DEF CommitReport, WebhooksTypeOK, HandlerStates
  <1>2. /\ providerMessageId[m] = a
        /\ IsValidTransition(status[m], report)
    BY <1>1 DEF CommitReport, HandlersAreInformed
  <1>3. PICK r \in issued : r.text.id = a /\ TerminalStatus(r.key, r.text.status) = report
    BY <1>1 DEF CommitReport, HandlersAreInformed
  <1>4. a \in accepted /\ attempts[a].provider = r.key /\ r.key \in RegisteredProviders
    BY <1>3 DEF IssuedAreTaken, WebhooksTypeOK, Signatures
  <1>5. ApplyDeliveryReport(a, report)
    BY <1>1, <1>2, <1>4 DEF CommitReport, ApplyDeliveryReport
  <1>6. report # None
    BY <1>1, NoneIsNoRequest DEF ReportStatuses, Statuses
  <1>7. \/ /\ r.key = "twilio" /\ r.text.status \in DOMAIN TwilioStatusMap
           /\ report = TwilioStatusMap[r.text.status]
        \/ /\ r.key = "bird" /\ r.text.status \in DOMAIN BirdStatusMap
           /\ report = BirdStatusMap[r.text.status]
    BY <1>3, <1>4, <1>6, StatusMaps
  <1>8. RecordDeliveryReport(a)
    BY <1>4, <1>5, <1>7 DEF RecordDeliveryReport, TwilioCallback, BirdCallback
  <1> QED
    BY <1>8 DEF Next, EnvironmentStep

LEMMA WebhooksStepIsDispatch ==
  ASSUME WebhooksInv, [WebhooksNext]_allVars
  PROVE  [Next]_vars
  <1>1. ServiceStep => Next
    BY DEF ServiceStep, Next, EnvironmentStep
  <1>2. ASSUME NEW w \in Workers, BirdMockCall(w) PROVE Next
    BY <1>2, MockIsProvider DEF Next, WorkerStep
  <1>3. ASSUME NEW a \in Attempts, NEW raw \in RawStatuses,
               TwilioReports(a, raw) \/ SimulateCallback(a, raw)
        PROVE  UNCHANGED vars
    BY <1>3 DEF TwilioReports, SimulateCallback, Issue
  <1>4. BirdMockRestart => UNCHANGED vars
    BY DEF BirdMockRestart
  <1>5. ASSUME NEW h \in Handlers, HandlerStep(h) PROVE [Next]_vars
    <2>1. ASSUME NEW p \in RegisteredProviders, ReceiveReport(h, p) PROVE UNCHANGED vars
      BY <2>1 DEF ReceiveReport, FindMessage, AcknowledgeRepeat
    <2>2. DropReport(h) => UNCHANGED vars
      BY DEF DropReport
    <2> QED
      BY <1>5, <2>1, <2>2, CommitIsReport DEF HandlerStep
  <1>6. UNCHANGED allVars => UNCHANGED vars
    BY DEF allVars
  <1> QED
    BY <1>1, <1>2, <1>3, <1>4, <1>5, <1>6 DEF WebhooksNext, ProviderStep

-----------------------------------------------------------------------------
(* The invariant.                                                           *)

\* What a step of SmsDispatch keeps, whoever takes it.
LEMMA DispatchKeeps ==
  ASSUME WebhooksInv, [Next]_vars
  PROVE  /\ DeliveryInv' /\ CorrelationInv' /\ IdsAreSettled'
         /\ \A r \in issued : /\ r.text.id \in accepted'
                              /\ r.key = attempts'[r.text.id].provider
         /\ \A a \in birdMessages : a \in accepted' /\ attempts'[a].provider = "bird"
         /\ \A h \in Handlers : handler[h] # None =>
              providerMessageId'[handler[h].msg] = handler[h].id
         /\ \A ack \in acked :
              \E m \in Messages : providerMessageId'[m] = ack[1] /\ status'[m] = ack[2]
  <1> USE DEF WebhooksInv
  <1>1. DeliveryInv' /\ CorrelationInv' /\ IdsAreSettled'
    BY DeliveryStep, CorrelationStep, IdsStep
  <1>2. \A a \in accepted : a \in Attempts /\ attempts[a] # None
    BY DEF DeliveryInv, TypeOK, TakenIsOpen, Open
  <1>3. \A a \in accepted : a \in accepted' /\ attempts'[a].provider = attempts[a].provider
    BY <1>2, AttemptsKeepTheirMessage
  <1>4. ASSUME NEW h \in Handlers, handler[h] # None
        PROVE  providerMessageId'[handler[h].msg] = handler[h].id
    <2>1. handler[h].msg \in Messages /\ handler[h].id \in Attempts
      BY <1>4 DEF WebhooksTypeOK, HandlerStates
    <2>2. providerMessageId[handler[h].msg] = handler[h].id
      BY <1>4 DEF HandlersAreInformed
    <2>3. handler[h].id # None
      BY <2>1, NoneIsNothing
    <2> QED
      BY <2>1, <2>2, <2>3, IdStays
  <1>5. ASSUME NEW ack \in acked
        PROVE  \E m \in Messages : providerMessageId'[m] = ack[1] /\ status'[m] = ack[2]
    <2>1. PICK m \in Messages : providerMessageId[m] = ack[1] /\ status[m] = ack[2]
      BY <1>5 DEF AckedIsHeld
    <2>2. ack[1] \in Attempts /\ ack[2] \in ReportStatuses
      BY <1>5 DEF WebhooksTypeOK
    <2>3. ack[1] # None
      BY <2>2, NoneIsNothing
    <2> QED
      BY <2>1, <2>2, <2>3, IdStays, ReportedStays
  <1> QED
    BY <1>1, <1>3, <1>4, <1>5 DEF IssuedAreTaken

\* What is shown as reported, while nothing new is reported.
LEMMA ReportsStay ==
  ASSUME WebhooksInv, [Next]_vars, issued \subseteq issued',
         NEW m \in Messages, status'[m] \in {"DELIVERED", "REJECTED"},
         status[m] = status'[m]
  PROVE  \E r \in issued' : /\ r.text.id = providerMessageId'[m]
                            /\ r.key = attempts'[r.text.id].provider
                            /\ TerminalStatus(r.key, r.text.status) = status'[m]
  <1>1. PICK r \in issued : /\ r.text.id = providerMessageId[m]
                            /\ TerminalStatus(r.key, r.text.status) = status[m]
    BY DEF WebhooksInv, ReportedIsIssued
  <1>2. providerMessageId[m] # None
    BY DEF WebhooksInv, CorrelationInv
  <1>3. providerMessageId'[m] = providerMessageId[m]
    BY <1>2, IdStays DEF WebhooksInv
  <1> QED
    BY <1>1, <1>3, DispatchKeeps

\* A step that leaves the handlers and the acknowledgements alone, and shows
\* nothing as reported.
LEMMA QuietKeepsInv ==
  ASSUME WebhooksInv, [Next]_vars, UNCHANGED <<handler, acked>>,
         issued \subseteq issued', issued' \subseteq Signatures, birdMessages' \subseteq Attempts,
         \A r \in issued' \ issued : /\ r.text.id \in accepted'
                                     /\ r.key = attempts'[r.text.id].provider,
         \A a \in birdMessages' \ birdMessages : a \in accepted' /\ attempts'[a].provider = "bird",
         \A m \in Messages : status'[m] \in {"DELIVERED", "REJECTED"} => status[m] = status'[m]
  PROVE  WebhooksInv'
  <1> USE DEF WebhooksInv
  <1>1. /\ DeliveryInv' /\ CorrelationInv' /\ IdsAreSettled'
        /\ IssuedAreTaken' /\ AckedIsHeld'
    BY DispatchKeeps DEF IssuedAreTaken, AckedIsHeld
  <1>2. WebhooksTypeOK'
    BY <1>1 DEF WebhooksTypeOK, DeliveryInv
  <1>3. HandlersAreInformed'
    BY DispatchKeeps DEF HandlersAreInformed
  <1>4. ReportedIsIssued'
    BY ReportsStay DEF ReportedIsIssued
  <1> QED
    BY <1>1, <1>2, <1>3, <1>4

LEMMA ProviderKeepsInv ==
  ASSUME WebhooksInv, ProviderStep
  PROVE  WebhooksInv'
  <1> USE DEF WebhooksInv
  <1>0. [Next]_vars
    BY WebhooksStepIsDispatch DEF WebhooksNext
  <1>1. ASSUME NEW w \in Workers, BirdMockCall(w) PROVE WebhooksInv'
    <2>1. CallProvider(w)
      BY <1>1, MockIsProvider
    <2>2. worker[w].attempt \in Attempts /\ attempts[worker[w].attempt].provider = "bird"
      BY <1>1 DEF BirdMockCall, CallsBird, DeliveryInv, CallsAreOwned, InCall
    <2>3. /\ UNCHANGED <<handler, issued, acked, attempts, status>>
          /\ \E stored \in SUBSET {worker[w].attempt} :
               /\ accepted' = accepted \cup stored
               /\ birdMessages' = birdMessages \cup stored
      <3>1. /\ UNCHANGED <<handler, issued, acked, attempts, status>>
            /\ \E taken \in BOOLEAN :
                 /\ accepted' = accepted \cup {b \in {worker[w].attempt} : taken}
                 /\ birdMessages' = IF taken THEN birdMessages \cup {worker[w].attempt}
                                             ELSE birdMessages
        BY <1>1 DEF BirdMockCall, EndCall
      <3> QED
        BY <3>1
    <2>4. birdMessages' \subseteq Attempts
      BY <2>2, <2>3 DEF WebhooksTypeOK
    <2>5. \A a \in birdMessages' \ birdMessages : a \in accepted' /\ attempts'[a].provider = "bird"
      BY <2>2, <2>3
    <2> QED
      BY <1>0, <2>3, <2>4, <2>5, QuietKeepsInv DEF WebhooksTypeOK
  <1>2. ASSUME NEW a \in Attempts, NEW raw \in RawStatuses, NEW p \in RegisteredProviders,
               a \in accepted, attempts[a].provider = p, Issue(p, a, raw)
        PROVE  WebhooksInv'
    <2> DEFINE report == [key |-> p, text |-> [id |-> a, status |-> raw]]
    <2>1. /\ issued' = issued \cup {report}
          /\ UNCHANGED <<handler, acked, birdMessages, accepted, attempts, status>>
      BY <1>2 DEF Issue, vars
    <2>2. report \in Signatures
      BY DEF Signatures, Bodies
    <2>3. report.text.id = a /\ report.key = p
      OBVIOUS
    <2> HIDE DEF report
    <2>4. issued' \subseteq Signatures
      BY <2>1, <2>2 DEF WebhooksTypeOK
    <2>5. \A r \in issued' \ issued : r.text.id \in accepted' /\ r.key = attempts'[r.text.id].provider
      BY <1>2, <2>1, <2>3
    <2> QED
      BY <1>0, <2>1, <2>4, <2>5, QuietKeepsInv DEF WebhooksTypeOK
  <1>3. ASSUME NEW a \in Attempts, NEW raw \in RawStatuses,
               TwilioReports(a, raw) \/ SimulateCallback(a, raw)
        PROVE  WebhooksInv'
    BY <1>2, <1>3 DEF TwilioReports, SimulateCallback, IssuedAreTaken, RegisteredProviders
  <1>4. CASE BirdMockRestart
    BY <1>0, <1>4, QuietKeepsInv DEF BirdMockRestart, vars, WebhooksTypeOK
  <1> QED
    BY <1>1, <1>3, <1>4 DEF ProviderStep

\* A request that passed the checks is one the provider issued.
LEMMA AcceptedIsIssued ==
  ASSUME NEW p \in RegisteredProviders, NEW request \in Requests, Accepts(p, request)
  PROVE  /\ request.signature \in issued
         /\ request.signature.key = p
         /\ request.signature.text = request.rawBody
  <1>1. request.signature = [key |-> p, text |-> request.rawBody] /\ request.rawBody # None
    BY DEF Accepts, TwilioAccepts, BirdAccepts, VerifyTwilioSignature, VerifyBirdSignature
  <1>2. request.signature # None
    <2>1. request.rawBody \in Bodies
      BY <1>1 DEF Requests
    <2>2. request.signature \in Signatures
      BY <1>1, <2>1 DEF Signatures
    <2> QED
      BY <2>2, NoneIsNoRequest
  <1> QED
    BY <1>1, <1>2 DEF Requests

LEMMA HandlerKeepsInv ==
  ASSUME WebhooksInv, NEW h \in Handlers, HandlerStep(h)
  PROVE  WebhooksInv'
  <1> USE DEF WebhooksInv
  <1>0. [Next]_vars
    BY WebhooksStepIsDispatch DEF WebhooksNext
  <1>1. /\ DeliveryInv' /\ CorrelationInv' /\ IdsAreSettled'
        /\ UNCHANGED <<issued, birdMessages>>
        /\ IssuedAreTaken'
    <2>1. UNCHANGED <<issued, birdMessages>>
      BY DEF HandlerStep, ReceiveReport, FindMessage, AcknowledgeRepeat, CommitReport, DropReport
    <2> QED
      BY <1>0, <2>1, DispatchKeeps DEF IssuedAreTaken
  <1>2. ASSUME NEW p \in RegisteredProviders, ReceiveReport(h, p) PROVE WebhooksInv'
    <2>1. PICK request \in Requests :
            /\ Accepts(p, request)
            /\ \/ FindMessage(h, request.rawBody.id,
                              TerminalStatus(p, request.rawBody.status))
               \/ AcknowledgeRepeat(request.rawBody.id,
                                    TerminalStatus(p, request.rawBody.status))
      BY <1>2 DEF ReceiveReport
    <2> DEFINE r == request.signature
               id == request.rawBody.id
               report == TerminalStatus(p, request.rawBody.status)
    <2>2. r \in issued /\ r.text.id = id /\ TerminalStatus(r.key, r.text.status) = report
      BY <2>1, AcceptedIsIssued
    <2>3. id \in Attempts /\ report \in ReportStatuses \cup {None}
      BY <2>2, StatusMaps DEF IssuedAreTaken, DeliveryInv, TypeOK
    <2> HIDE DEF id, report, r
    <2>4. CASE FindMessage(h, id, report)
      <3>1. PICK m \in Messages :
              /\ providerMessageId[m] = id /\ IsValidTransition(status[m], report)
              /\ handler' = [handler EXCEPT ![h] =
                               [msg |-> m, id |-> id, read |-> status[m], report |-> report]]
        BY <2>4 DEF FindMessage
      <3>2. UNCHANGED <<vars, acked>> /\ report \in ReportStatuses
        BY <2>3, <2>4 DEF FindMessage
      <3>3. status[m] \in Statuses
        BY <3>1 DEF IsValidTransition, TransitionTable, Statuses
      <3>4. WebhooksTypeOK'
        BY <1>1, <2>3, <3>1, <3>2, <3>3 DEF WebhooksTypeOK, HandlerStates, DeliveryInv
      <3>5. HandlersAreInformed'
        BY <1>1, <2>2, <3>1, <3>2 DEF HandlersAreInformed, WebhooksTypeOK, vars
      <3>6. AckedIsHeld' /\ ReportedIsIssued'
        BY <1>1, <3>2 DEF AckedIsHeld, ReportedIsIssued, vars
      <3> QED
        BY <1>1, <3>4, <3>5, <3>6
    <2>5. CASE AcknowledgeRepeat(id, report)
      <3>1. /\ \E m \in Messages : providerMessageId[m] = id /\ status[m] = report
            /\ acked' = acked \cup {<<id, report>>}
            /\ UNCHANGED <<vars, handler>>
        BY <2>5 DEF AcknowledgeRepeat
      <3>2. report \in ReportStatuses
        BY <2>3, <3>1, NoneIsNoRequest DEF DeliveryInv, TypeOK
      <3>3. WebhooksTypeOK'
        BY <1>1, <2>3, <3>1, <3>2 DEF WebhooksTypeOK, DeliveryInv
      <3>4. AckedIsHeld'
        BY <3>1 DEF AckedIsHeld, vars
      <3>5. HandlersAreInformed' /\ ReportedIsIssued'
        BY <1>1, <3>1 DEF HandlersAreInformed, ReportedIsIssued, vars
      <3> QED
        BY <1>1, <3>3, <3>4, <3>5
    <2> QED
      BY <2>1, <2>4, <2>5 DEF id, report
  <1>3. CASE CommitReport(h)
    <2>1. PICK m \in Messages, a \in Attempts, report \in ReportStatuses :
            /\ handler[h] # None
            /\ m = handler[h].msg /\ a = handler[h].id /\ report = handler[h].report
      BY <1>3 DEF CommitReport, WebhooksTypeOK, HandlerStates
    <2>2. /\ status' = [status EXCEPT ![m] = report]
          /\ acked' = acked \cup {<<a, report>>}
          /\ handler' = [handler EXCEPT ![h] = None]
          /\ UNCHANGED <<providerMessageId, attempts>>
      BY <1>3, <2>1 DEF CommitReport, SetStatus
    <2>3. status'[m] = report
      BY <2>2 DEF DeliveryInv, TypeOK
    <2>4. WebhooksTypeOK'
      BY <1>1, <2>2 DEF WebhooksTypeOK, DeliveryInv
    <2>5. HandlersAreInformed'
      BY <1>1, <2>2 DEF HandlersAreInformed, WebhooksTypeOK
    <2>6. AckedIsHeld'
      <3>1. providerMessageId'[m] = a
        BY <2>1, <2>2 DEF HandlersAreInformed
      <3> QED
        BY <1>0, <2>2, <2>3, <3>1, DispatchKeeps DEF AckedIsHeld
    <2>7. ReportedIsIssued'
      <3>1. ASSUME NEW n \in Messages, n # m, status'[n] \in {"DELIVERED", "REJECTED"}
            PROVE  status[n] = status'[n]
        BY <2>2, <3>1 DEF DeliveryInv, TypeOK
      <3>2. PICK r \in issued : /\ r.text.id = a
                                /\ TerminalStatus(r.key, r.text.status) = report
        BY <2>1 DEF HandlersAreInformed
      <3>3. /\ r.text.id = providerMessageId'[m]
            /\ r.key = attempts'[r.text.id].provider
        BY <2>1, <2>2, <3>2 DEF HandlersAreInformed, IssuedAreTaken
      <3> QED
        BY <1>0, <1>1, <2>3, <3>1, <3>2, <3>3, ReportsStay DEF ReportedIsIssued
    <2> QED
      BY <1>1, <2>4, <2>5, <2>6, <2>7
  <1>4. CASE DropReport(h)
    <2>1. /\ handler' = [handler EXCEPT ![h] = None]
          /\ UNCHANGED <<vars, acked>>
      BY <1>4 DEF DropReport
    <2>2. WebhooksTypeOK'
      BY <1>1, <2>1 DEF WebhooksTypeOK, DeliveryInv
    <2>3. HandlersAreInformed'
      BY <1>1, <2>1 DEF HandlersAreInformed, WebhooksTypeOK, vars
    <2>4. AckedIsHeld' /\ ReportedIsIssued'
      BY <1>1, <2>1 DEF AckedIsHeld, ReportedIsIssued, vars
    <2> QED
      BY <1>1, <2>2, <2>3, <2>4
  <1> QED
    BY <1>2, <1>3, <1>4 DEF HandlerStep

LEMMA WebhooksStep ==
  ASSUME WebhooksInv, [WebhooksNext]_allVars
  PROVE  WebhooksInv'
  <1> USE DEF WebhooksInv
  <1>1. CASE ServiceStep
    <2>1. [Next]_vars
      BY <1>1, WebhooksStepIsDispatch DEF WebhooksNext
    <2>2. UNCHANGED webhookVars
      BY <1>1 DEF ServiceStep
    <2> QED
      BY <1>1, <2>1, <2>2, ServiceReportsNothing, QuietKeepsInv
      DEF webhookVars, WebhooksTypeOK
  <1>2. CASE UNCHANGED allVars
    BY <1>2, QuietKeepsInv DEF allVars, webhookVars, vars, WebhooksTypeOK
  <1> QED
    BY <1>1, <1>2, ProviderKeepsInv, HandlerKeepsInv DEF WebhooksNext

\* The invariant the theorems below follow from.
THEOREM WebhooksInvariant == WebhooksSpec => []WebhooksInv
  <1>1. WebhooksInit => WebhooksInv
    <2> SUFFICES ASSUME WebhooksInit PROVE WebhooksInv
      OBVIOUS
    <2>1. TypeOK /\ DeliveryInv
      BY TypeInit, DeliveryInit DEF WebhooksInit, DeliveryInv
    <2>2. CorrelationInv /\ IdsAreSettled
      BY NoneIsNothing DEF WebhooksInit, Init, CorrelationInv, IdsAreSettled, NoMessage
    <2>3. ReportedIsIssued
      BY DEF WebhooksInit, Init, ReportedIsIssued, NoMessage
    <2> QED
      BY <2>1, <2>2, <2>3
      DEF WebhooksInit, WebhooksInv, WebhooksTypeOK, IssuedAreTaken, HandlersAreInformed,
          AckedIsHeld
  <1> QED
    BY <1>1, WebhooksStep, PTL DEF WebhooksSpec

\* The routes and the mock keep the shape of the state.
THEOREM WebhooksTypeCorrect == WebhooksSpec => []WebhooksTypeOK
  <1>1. WebhooksInv => WebhooksTypeOK
    BY DEF WebhooksInv
  <1> QED
    BY <1>1, WebhooksInvariant, PTL

\* Once acknowledged, a report is never contradicted: not by a racing report, not
\* by the expiry, an operator, a requeue or a late worker.
THEOREM AcknowledgedReportsStay == WebhooksSpec => []AckedIsHeld
  <1>1. WebhooksInv => AckedIsHeld
    BY DEF WebhooksInv
  <1> QED
    BY <1>1, WebhooksInvariant, PTL

\* Nothing is shown as delivered or rejected that its provider did not report.
THEOREM ReportsAreGenuine == WebhooksSpec => []ReportedIsIssued
  <1>1. WebhooksInv => ReportedIsIssued
    BY DEF WebhooksInv
  <1> QED
    BY <1>1, WebhooksInvariant, PTL

\* With the webhooks in two statements and Bird behind its mock the service is
\* still SmsDispatch, so what is proved of SmsDispatch holds of it.
THEOREM WebhooksImplementDispatch == WebhooksSpec => ImplementsDispatch
  <1>1. WebhooksInit => Init
    BY DEF WebhooksInit
  <1> QED
    BY <1>1, WebhooksStepIsDispatch, WebhooksInvariant, PTL
    DEF WebhooksSpec, ImplementsDispatch, Spec

\* Racing, repeated and stale reports lead to no second delivery of their own and
\* change nothing that callers, operators and the database are promised.
THEOREM WebhooksKeepPromises ==
  WebhooksSpec =>
    /\ [](OnlyCutShortCallsDuplicate /\ OpenAttemptBlocksDispatch /\ SentIsCorrelated
          /\ OneResolutionPerMessage /\ IdsAreSettled)
    /\ ResolutionsImmutable
    /\ ImplementsStatusSpec
    /\ KeepsPromise
  BY WebhooksImplementDispatch, ProvidersTakeAMessageOnce, OpenAttemptsBlockDispatch, SentMessagesAreCorrelated,
     MessagesAreResolvedOnce, OnlySettledMessagesCarryIds, ResolutionsNeverChange,
     RepositoryImplementsStatusSpec, DispatchKeepsPromise, PTL
  DEF ImplementsDispatch

=============================================================================
