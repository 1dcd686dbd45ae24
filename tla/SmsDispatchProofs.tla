-------------------------- MODULE SmsDispatchProofs --------------------------
(***************************************************************************)
(* Theorems about SmsDispatch, for every set of messages, workers,         *)
(* operators and attempts, every provider order and every retry limit: its *)
(* invariants, the abstract specifications it implements, and the bound on *)
(* retry rounds, which is for every finite set of workers.                 *)
(***************************************************************************)
EXTENDS SmsDispatch, FiniteSetTheorems, TLAPS

-----------------------------------------------------------------------------
(* Type correctness.                                                        *)

LEMMA IdleType == Idle \in WorkerStates
  BY DEF Idle, WorkerStates

LEMMA TypeInit == Init => TypeOK
  BY IdleType DEF Init, TypeOK

\* The worker record after each kind of step.
LEMMA WorkerRecords ==
  ASSUME NEW r \in WorkerStates
  PROVE  /\ \A m \in Messages, n \in Nat :
              [Idle EXCEPT !.pc = "pass", !.msg = m, !.round = n] \in WorkerStates
         /\ \A a \in Attempts :
              [r EXCEPT !.pc = "reserved", !.attempt = a] \in WorkerStates
         /\ \A x \in Results :
              [r EXCEPT !.pc = "called", !.result = x] \in WorkerStates
         /\ \A b \in BOOLEAN :
              [r EXCEPT !.pc = "pass", !.next = r.next + 1, !.allRetryable = b,
                        !.attempt = None, !.result = None] \in WorkerStates
         /\ [r EXCEPT !.pc = "commit"] \in WorkerStates
  <1>1. ASSUME NEW m \in Messages, NEW n \in Nat
        PROVE  [Idle EXCEPT !.pc = "pass", !.msg = m, !.round = n] \in WorkerStates
    <2>1. ASSUME NEW s \in WorkerStates
          PROVE  [s EXCEPT !.pc = "pass", !.msg = m, !.round = n] \in WorkerStates
      BY DEF WorkerStates
    <2> QED
      BY <2>1, IdleType
  <1>2. ASSUME NEW a \in Attempts
        PROVE  [r EXCEPT !.pc = "reserved", !.attempt = a] \in WorkerStates
    BY DEF WorkerStates
  <1>3. ASSUME NEW x \in Results
        PROVE  [r EXCEPT !.pc = "called", !.result = x] \in WorkerStates
    BY DEF WorkerStates
  <1>4. ASSUME NEW b \in BOOLEAN
        PROVE  [r EXCEPT !.pc = "pass", !.next = r.next + 1, !.allRetryable = b,
                         !.attempt = None, !.result = None] \in WorkerStates
    <2>1. r.next + 1 \in Nat \ {0}
      BY DEF WorkerStates
    <2> QED
      BY <2>1 DEF WorkerStates
  <1>5. [r EXCEPT !.pc = "commit"] \in WorkerStates
    BY DEF WorkerStates
  <1> QED
    BY <1>1, <1>2, <1>3, <1>4, <1>5

\* The row a reservation writes.
LEMMA ReservedRow ==
  ASSUME TypeOK, CallsAreOwned, NEW w \in Workers, NEW a \in Attempts,
         ReserveProviderAttempt(w, a)
  PROVE  /\ attempts' = [attempts EXCEPT ![a] = attempts'[a]]
         /\ attempts'[a] \in AttemptRows
         /\ attempts'[a] # None
         /\ attempts'[a].msg = Msg(w)
         /\ attempts'[a].outcome = "RESERVED"
  <1>1. ProviderOrder[worker[w].next] \in RegisteredProviders
    BY ConstantsAssumption
    DEF ReserveProviderAttempt, ProvidersLeft, NumProviders, WorkerStates, TypeOK
  <1>2. Msg(w) \in Messages
    BY DEF ReserveProviderAttempt, CallsAreOwned, Msg
  <1> DEFINE row == [msg |-> Msg(w), provider |-> ProviderOrder[worker[w].next],
                     outcome |-> "RESERVED", isAmbiguous |-> TRUE]
  <1>3. attempts' = [attempts EXCEPT ![a] = row]
    BY DEF ReserveProviderAttempt
  <1>4. row \in AttemptRows
    BY <1>1, <1>2 DEF AttemptRows
  <1>5. row # None
    BY <1>4, NoneIsNothing
  <1>6. attempts'[a] = row
    BY <1>3 DEF TypeOK
  <1>7. row.msg = Msg(w) /\ row.outcome = "RESERVED"
    OBVIOUS
  <1> HIDE DEF row
  <1> QED
    BY <1>3, <1>4, <1>5, <1>6, <1>7

\* What the worker's classification says of the provider: `accepted` is said only
\* of a message that was taken, and a failure that releases the reservation is one
\* that the provider refused, or whose response broke off.  For a timeout, a lost
\* connection, an answer without an id or any other error the reservation stands
\* (normalizeProviderError, isAmbiguous of both strategies, classify).
THEOREM DefinitiveAnswersAreResponses ==
  ASSUME NEW p \in RegisteredProviders, NEW answer \in AnswersOf(p)
  PROVE  /\ Classify(answer) \in Results
         /\ Classify(answer) = "accepted" => HasTaken(answer) /\ ~IsCutShort(answer)
         /\ Classify(answer) \in {"retryable", "permanent"}
              <=> HasRefused(answer) \/ IsCutShort(answer)
  <1>1. \/ answer \in Sent
        \/ /\ answer.thrown = "RestException"
           /\ answer.status \in HttpStatuses /\ answer.timedOut = FALSE
        \/ answer.thrown = "AxiosError" /\ answer.timedOut \in BOOLEAN
        \/ answer.thrown = "other" /\ answer.status = NoResponse
    BY DEF AnswersOf, TwilioAnswers, BirdAnswers, TransportErrors, Thrown
  <1>2. CASE answer \in Sent
    BY <1>2 DEF Sent, Classify, Results, HasTaken, HasRefused, IsCutShort, HttpStatuses,
                NoResponse
  <1>3. CASE answer.thrown = "RestException" /\ answer.status \in HttpStatuses
             /\ answer.timedOut = FALSE
    BY <1>3 DEF Classify, Kind, IsAmbiguous, Results, HasRefused, IsCutShort, HttpStatuses,
                NoResponse
  <1>4. CASE answer.thrown = "AxiosError" /\ answer.timedOut \in BOOLEAN
    BY <1>4 DEF Classify, Kind, IsAmbiguous, Results, HasRefused, IsCutShort, HttpStatuses,
                NoResponse
  <1>5. CASE answer.thrown = "other" /\ answer.status = NoResponse
    BY <1>5 DEF Classify, Kind, IsAmbiguous, Results, HasRefused, IsCutShort, HttpStatuses,
                NoResponse
  <1> QED
    BY <1>1, <1>2, <1>3, <1>4, <1>5

\* What a call leaves behind.
LEMMA CallOutcome ==
  ASSUME TypeOK, CallsAreOwned, NEW w \in Workers, CallProvider(w)
  PROVE  \E x \in Results, taken \in BOOLEAN, broken \in BOOLEAN :
           /\ x = "accepted" => taken /\ ~broken
           /\ x \in {"retryable", "permanent"} => ~taken \/ broken
           /\ worker' = [worker EXCEPT ![w].pc = "called", ![w].result = x]
           /\ accepted' = IF taken THEN accepted \cup {worker[w].attempt} ELSE accepted
           /\ cutShort' = IF taken /\ broken THEN cutShort \cup {worker[w].attempt}
                                             ELSE cutShort
  <1> DEFINE a == worker[w].attempt
             p == attempts[a].provider
  <1>1. p \in RegisteredProviders
    BY DEF CallProvider, CallsAreOwned, InCall, TypeOK, AttemptRows
  <1>2. PICK answer \in AnswersOf(p), taken \in BOOLEAN :
          /\ HasTaken(answer) => taken
          /\ HasRefused(answer) => ~taken
          /\ EndCall(w, answer, taken)
    BY DEF CallProvider
  <1>3. PICK broken \in BOOLEAN : broken = IsCutShort(answer)
    BY DEF IsCutShort
  <1>4. /\ Classify(answer) \in Results
        /\ Classify(answer) = "accepted" => HasTaken(answer) /\ ~IsCutShort(answer)
        /\ Classify(answer) \in {"retryable", "permanent"}
             <=> HasRefused(answer) \/ IsCutShort(answer)
    BY <1>1, <1>2, DefinitiveAnswersAreResponses
  <1>5. /\ worker' = [worker EXCEPT ![w].pc = "called", ![w].result = Classify(answer)]
        /\ accepted' = IF taken THEN accepted \cup {a} ELSE accepted
        /\ cutShort' = IF taken /\ broken THEN cutShort \cup {a} ELSE cutShort
    <2>1. taken => {b \in {a} : taken} = {a}
      OBVIOUS
    <2>2. ~taken => {b \in {a} : taken} = {}
      OBVIOUS
    <2> QED
      BY <1>2, <1>3, <2>1, <2>2 DEF EndCall
  <1> QED
    BY <1>2, <1>3, <1>4, <1>5

\* A callback of either provider reports one of the terminal statuses.
LEMMA CallbackIsReport ==
  ASSUME NEW a \in Attempts, RecordDeliveryReport(a)
  PROVE  \E r \in ReportStatuses : ApplyDeliveryReport(a, r)
  <1>1. /\ \A raw \in DOMAIN TwilioStatusMap : TwilioStatusMap[raw] \in ReportStatuses
        /\ \A raw \in DOMAIN BirdStatusMap : BirdStatusMap[raw] \in ReportStatuses
    BY DEF TwilioStatusMap, BirdStatusMap, ReportStatuses
  <1> QED
    BY <1>1 DEF RecordDeliveryReport, TwilioCallback, BirdCallback

LEMMA EnvironmentActs ==
  ASSUME EnvironmentStep
  PROVE  \/ \E m \in Messages : MessageStep(m)
         \/ \E a \in Attempts, r \in ReportStatuses : ApplyDeliveryReport(a, r)
         \/ \E o \in Operators : OperatorStep(o)
  <1>1. ASSUME NEW a \in Attempts, RecordDeliveryReport(a)
        PROVE  \E r \in ReportStatuses : ApplyDeliveryReport(a, r)
    BY <1>1, CallbackIsReport
  <1> QED
    BY <1>1 DEF EnvironmentStep

\* The steps of one worker keep the types.
LEMMA TypeWorker ==
  ASSUME TypeOK, CallsAreOwned, NEW w \in Workers, WorkerStep(w) \/ Abandon(w)
  PROVE  TypeOK'
  <1>0. worker[w] \in WorkerStates
    BY DEF TypeOK
  <1>1. ASSUME NEW m \in Messages, BeginProcessing(w, m) PROVE TypeOK'
    <2>1. worker' \in [Workers -> WorkerStates]
      BY <1>0, <1>1, WorkerRecords DEF BeginProcessing, TypeOK
    <2> QED
      BY <1>1, <2>1 DEF BeginProcessing, SetStatus, TypeOK, Statuses
  <1>2. ASSUME NEW a \in Attempts, ReserveProviderAttempt(w, a) PROVE TypeOK'
    <2>1. worker' \in [Workers -> WorkerStates]
      BY <1>0, <1>2, WorkerRecords DEF ReserveProviderAttempt, TypeOK
    <2>2. attempts' \in [Attempts -> AttemptRows \cup {None}]
      BY <1>2, ReservedRow DEF TypeOK
    <2> QED
      BY <1>2, <2>1, <2>2 DEF ReserveProviderAttempt, SetStatus, TypeOK, Statuses
  <1>3. CASE ReservationLost(w) \/ FinalizeLost(w) \/ OutcomeInvalid(w)
             \/ OutcomeLost(w) \/ Abandon(w)
    BY <1>3, IdleType
    DEF ReservationLost, FinalizeLost, OutcomeInvalid, OutcomeLost, Abandon, Return, TypeOK
  <1>4. CASE CallProvider(w)
    <2>1. worker' \in [Workers -> WorkerStates]
      <3>1. PICK x \in Results :
              worker' = [worker EXCEPT ![w].pc = "called", ![w].result = x]
        BY <1>4, CallOutcome
      <3>2. [worker[w] EXCEPT !.pc = "called", !.result = x] \in WorkerStates
        BY <1>0, WorkerRecords
      <3> QED
        BY <3>1, <3>2 DEF TypeOK
    <2>2. accepted' \subseteq Attempts /\ cutShort' \subseteq accepted'
      <3>1. worker[w].attempt \in Attempts
        BY <1>4 DEF CallProvider, CallsAreOwned, InCall
      <3>2. PICK taken \in BOOLEAN, broken \in BOOLEAN :
              /\ accepted' = IF taken THEN accepted \cup {worker[w].attempt} ELSE accepted
              /\ cutShort' = IF taken /\ broken THEN cutShort \cup {worker[w].attempt}
                                                ELSE cutShort
        BY <1>4, CallOutcome
      <3> QED
        BY <3>1, <3>2 DEF TypeOK
    <2> QED
      BY <1>4, <2>1, <2>2 DEF CallProvider, TypeOK
  <1> DEFINE a == worker[w].attempt
  <1>5. ASSUME InCall(w), NEW x \in {"ACCEPTED", "FAILED"}, NEW b \in BOOLEAN,
               FinalizeAttempt(w, x, b)
        PROVE  attempts' \in [Attempts -> AttemptRows \cup {None}]
    <2>1. a \in Attempts /\ attempts[a] \in AttemptRows
      BY <1>5 DEF CallsAreOwned, TypeOK
    <2> QED
      BY <1>5, <2>1 DEF FinalizeAttempt, AttemptRows, TypeOK
  <1>6. CASE FinalizeAccepted(w)
    <2>1. attempts' \in [Attempts -> AttemptRows \cup {None}]
      BY <1>5, <1>6 DEF FinalizeAccepted, InCall
    <2>2. a \in Attempts
      BY <1>6 DEF FinalizeAccepted, InCall, CallsAreOwned
    <2> QED
      BY <1>6, <2>1, <2>2, IdleType DEF FinalizeAccepted, SetStatus, Return, TypeOK, Statuses
  <1>7. CASE FinalizeAmbiguous(w)
    <2>1. attempts' \in [Attempts -> AttemptRows \cup {None}]
      BY <1>5, <1>7 DEF FinalizeAmbiguous, InCall
    <2> QED
      BY <1>7, <2>1, IdleType DEF FinalizeAmbiguous, Emit, Return, TypeOK, JobKinds
  <1>8. CASE FinalizeFailed(w)
    <2>1. attempts' \in [Attempts -> AttemptRows \cup {None}]
      BY <1>5, <1>8 DEF FinalizeFailed, InCall
    <2>2. worker' \in [Workers -> WorkerStates]
      <3> DEFINE b == worker[w].allRetryable /\ worker[w].result = "retryable"
      <3>1. b \in BOOLEAN
        OBVIOUS
      <3>2. [worker[w] EXCEPT !.pc = "pass", !.next = worker[w].next + 1,
                              !.allRetryable = b, !.attempt = None, !.result = None]
              \in WorkerStates
        BY <1>0, <3>1, WorkerRecords
      <3>3. worker' = [worker EXCEPT ![w] =
              [worker[w] EXCEPT !.pc = "pass", !.next = worker[w].next + 1,
                                !.allRetryable = b, !.attempt = None, !.result = None]]
        BY <1>8 DEF FinalizeFailed
      <3> QED
        BY <3>2, <3>3 DEF TypeOK
    <2> QED
      BY <1>8, <2>1, <2>2 DEF FinalizeFailed, SetStatus, TypeOK, Statuses
  <1>9. CASE ValidateOutcome(w)
    <2>1. worker' \in [Workers -> WorkerStates]
      BY <1>0, <1>9, WorkerRecords DEF ValidateOutcome, TypeOK
    <2> QED
      BY <1>9, <2>1 DEF ValidateOutcome, TypeOK
  <1>10. CASE ScheduleRetry(w) \/ MarkFatalFailure(w)
    BY <1>10, IdleType
    DEF ScheduleRetry, MarkFatalFailure, SetStatus, Emit, Return, TypeOK, Statuses, JobKinds
  <1> QED
    BY <1>1, <1>2, <1>3, <1>4, <1>6, <1>7, <1>8, <1>9, <1>10 DEF WorkerStep

\* So do the steps of everybody else.
LEMMA TypeEnvironment == TypeOK /\ EnvironmentStep => TypeOK'
  <1> SUFFICES ASSUME TypeOK, EnvironmentStep PROVE TypeOK'
    OBVIOUS
  <1> USE DEF TypeOK, SetStatus, Emit, Statuses, JobKinds
  <1>1. ASSUME NEW m \in Messages, MessageStep(m) PROVE TypeOK'
    BY <1>1 DEF MessageStep, CreateMessage, RecoverStaleProcessing,
                ExpireAmbiguousOutcome, ResetForRequeue
  <1>2. ASSUME NEW a \in Attempts, NEW r \in ReportStatuses, ApplyDeliveryReport(a, r)
        PROVE TypeOK'
    BY <1>2 DEF ApplyDeliveryReport, ReportStatuses
  <1>3. ASSUME NEW o \in Operators, OperatorStep(o) PROVE TypeOK'
    BY <1>3 DEF OperatorStep, ValidateResolution, ResolveTwilioAttempt,
                ResolutionLost, ResolutionRequests
  <1> QED
    BY <1>1, <1>2, <1>3, EnvironmentActs

LEMMA TypeStep == TypeOK /\ CallsAreOwned /\ [Next]_vars => TypeOK'
  <1>1. TypeOK /\ UNCHANGED vars => TypeOK'
    BY DEF TypeOK, vars
  <1> QED
    BY <1>1, TypeWorker, TypeEnvironment DEF Next

-----------------------------------------------------------------------------
(* No duplicate delivery.                                                   *)

LEMMA DeliveryInit == Init => CallsAreOwned /\ TakenIsOpen /\ OpenAttemptBlocksDispatch
  BY DEF Init, Idle, CallsAreOwned, InCall, TakenIsOpen, OpenAttemptBlocksDispatch, Open

\* A status change that does not lead back into dispatch opens no hole.
LEMMA StatusMove ==
  ASSUME TypeOK, OpenAttemptBlocksDispatch, NEW m \in Messages, NEW s,
         SetStatus(m, s), UNCHANGED attempts,
         status[m] \in OutOfDispatch => s \in OutOfDispatch
  PROVE  OpenAttemptBlocksDispatch'
  <1>1. \A a \in Attempts : Open(a)' <=> Open(a)
    BY DEF Open
  <1>2. ASSUME NEW a \in Attempts, Open(a)
        PROVE  /\ status'[attempts[a].msg] \in OutOfDispatch
               /\ attempts[a].msg \in Messages
    BY <1>2 DEF Open, SetStatus, OpenAttemptBlocksDispatch, TypeOK, AttemptRows
  <1> QED
    BY <1>1, <1>2 DEF OpenAttemptBlocksDispatch

\* A worker that is not in a call after its step, and changed no attempt.
LEMMA OutsideCall ==
  ASSUME CallsAreOwned, TakenIsOpen, TypeOK, NEW w \in Workers, NEW r,
         worker' = [worker EXCEPT ![w] = r],
         r.pc \notin {"reserved", "called"},
         r.pc # "idle" => r.msg \in Messages,
         UNCHANGED <<attempts, accepted, cutShort>>
  PROVE  CallsAreOwned' /\ TakenIsOpen'
  <1>1. \A v \in Workers : worker'[v] = IF v = w THEN r ELSE worker[v]
    BY DEF TypeOK
  <1>2. CallsAreOwned'
    BY <1>1 DEF CallsAreOwned, InCall
  <1>3. TakenIsOpen'
    BY <1>1 DEF TakenIsOpen, Open
  <1> QED
    BY <1>2, <1>3

LEMMA DeliveryEnvironment ==
  DeliveryInv /\ EnvironmentStep
    => CallsAreOwned' /\ TakenIsOpen' /\ OpenAttemptBlocksDispatch'
  <1> SUFFICES ASSUME DeliveryInv, EnvironmentStep
               PROVE  CallsAreOwned' /\ TakenIsOpen' /\ OpenAttemptBlocksDispatch'
    OBVIOUS
  <1> USE DEF DeliveryInv
  <1>1. UNCHANGED <<attempts, worker, accepted, cutShort>>
    BY EnvironmentActs DEF MessageStep, CreateMessage, RecoverStaleProcessing,
           ExpireAmbiguousOutcome, ResetForRequeue, ApplyDeliveryReport, OperatorStep,
           ValidateResolution, ResolveTwilioAttempt, ResolutionLost
  <1>2. CallsAreOwned' /\ TakenIsOpen'
    BY <1>1 DEF CallsAreOwned, InCall, TakenIsOpen, Open
  <1>3. ASSUME UNCHANGED status PROVE OpenAttemptBlocksDispatch'
    <2>1. \A a \in Attempts : Open(a)' <=> Open(a)
      BY <1>1 DEF Open
    <2>2. OpenAttemptBlocksDispatch /\ status' = status /\ attempts' = attempts
      BY <1>1, <1>3
    <2> QED
      BY <2>1, <2>2 DEF OpenAttemptBlocksDispatch
  <1>4. ASSUME NEW m \in Messages, MessageStep(m) PROVE OpenAttemptBlocksDispatch'
    BY <1>1, <1>4, StatusMove
    DEF MessageStep, CreateMessage, RecoverStaleProcessing, ExpireAmbiguousOutcome,
        ResetForRequeue, OutOfDispatch, NoMessage
  <1>5. ASSUME NEW a \in Attempts, NEW r \in ReportStatuses, ApplyDeliveryReport(a, r)
        PROVE OpenAttemptBlocksDispatch'
    BY <1>1, <1>5, StatusMove DEF ApplyDeliveryReport, ReportStatuses, OutOfDispatch
  <1>6. ASSUME NEW o \in Operators, OperatorStep(o) PROVE OpenAttemptBlocksDispatch'
    <2>1. CASE ResolveTwilioAttempt(o)
      <3> DEFINE m == operator[o].msg
      <3>1. m \in Messages
        BY <2>1 DEF ResolveTwilioAttempt, TypeOK, ResolutionRequests
      <3> QED
        BY <1>1, <2>1, <3>1, StatusMove DEF ResolveTwilioAttempt, OutOfDispatch
    <2> QED
      BY <1>3, <1>6, <2>1 DEF OperatorStep, ValidateResolution, ResolutionLost
  <1> QED
    BY <1>2, <1>4, <1>5, <1>6, EnvironmentActs

\* A worker that finalizes: the attempt it owns is the message's only open one.
LEMMA OwnedIsOnlyOpen ==
  ASSUME DeliveryInv, NEW w \in Workers, InCall(w)
  PROVE  /\ worker[w].attempt \in Attempts
         /\ Open(worker[w].attempt)
         /\ Msg(w) \in Messages
         /\ attempts[worker[w].attempt].msg = Msg(w)
         /\ \A b \in Attempts :
              Open(b) /\ attempts[b].msg = Msg(w) => b = worker[w].attempt
  BY DEF DeliveryInv, CallsAreOwned, InCall, Open, Msg, OpenAttemptBlocksDispatch

LEMMA DeliveryWorker ==
  ASSUME DeliveryInv, NEW w \in Workers, WorkerStep(w) \/ Abandon(w)
  PROVE  CallsAreOwned' /\ TakenIsOpen' /\ OpenAttemptBlocksDispatch'
  <1> USE DEF DeliveryInv
  <1>0. PICK a : a = worker[w].attempt
    OBVIOUS
  <1>1. ASSUME NEW m \in Messages, BeginProcessing(w, m)
        PROVE CallsAreOwned' /\ TakenIsOpen' /\ OpenAttemptBlocksDispatch'
    <2> DEFINE r == [Idle EXCEPT !.pc = "pass", !.msg = m, !.round = retryRounds[m]]
    <2>1. r.pc = "pass" /\ r.msg = m
      BY DEF Idle
    <2>2. CallsAreOwned' /\ TakenIsOpen'
      <3> HIDE DEF r
      <3> QED
        BY <1>1, <2>1, OutsideCall DEF BeginProcessing, r
    <2> QED
      BY <1>1, <2>2, StatusMove DEF BeginProcessing, BeginProcessingFrom, OutOfDispatch
  <1>2. ASSUME NEW b \in Attempts, ReserveProviderAttempt(w, b)
        PROVE CallsAreOwned' /\ TakenIsOpen' /\ OpenAttemptBlocksDispatch'
    <2>1. Msg(w) \in Messages
      BY <1>2 DEF ReserveProviderAttempt, CallsAreOwned, Msg
    <2>2. /\ attempts'[b] # None
          /\ attempts'[b].msg = Msg(w)
          /\ attempts'[b].outcome = "RESERVED"
          /\ \A c \in Attempts : c # b => attempts'[c] = attempts[c]
      BY <1>2, ReservedRow DEF TypeOK
    <2>3. /\ worker'[w].pc = "reserved"
          /\ worker'[w].attempt = b
          /\ worker'[w].msg = Msg(w)
          /\ \A v \in Workers : v # w => worker'[v] = worker[v]
      BY <1>2 DEF ReserveProviderAttempt, TypeOK, Msg, WorkerStates
    <2>4. attempts[b] = None /\ ~Open(b) /\ b \notin accepted
      BY <1>2 DEF ReserveProviderAttempt, Open, TakenIsOpen
    <2>5. CallsAreOwned'
      BY <2>1, <2>2, <2>3, <2>4 DEF CallsAreOwned, InCall
    <2>6. TakenIsOpen'
      <3>1. /\ accepted' = accepted /\ cutShort' = cutShort
            /\ accepted \subseteq Attempts
        BY <1>2 DEF ReserveProviderAttempt, TypeOK
      <3>2. /\ \A c \in accepted : attempts'[c] # None
            /\ \A c \in accepted \ cutShort : Open(c)'
        BY <2>2, <2>4, <3>1 DEF TakenIsOpen, Open
      <3> QED
        BY <2>3, <2>4, <3>1, <3>2 DEF TakenIsOpen
    <2>7. OpenAttemptBlocksDispatch'
      <3>1. \A c \in Attempts : Open(c) => attempts[c].msg # Msg(w)
        BY <1>2 DEF ReserveProviderAttempt, OpenAttemptBlocksDispatch, OutOfDispatch
      <3>2. \A c \in Attempts : c # b => (Open(c)' <=> Open(c))
        BY <2>2 DEF Open
      <3>3. status'[Msg(w)] \in OutOfDispatch
            /\ \A m \in Messages : m # Msg(w) => status'[m] = status[m]
        BY <1>2, <2>1 DEF ReserveProviderAttempt, SetStatus, TypeOK, OutOfDispatch
      <3>4. \A c \in Attempts : Open(c) => attempts[c].msg \in Messages
        BY DEF Open, TypeOK, AttemptRows
      <3> QED
        BY <2>2, <3>1, <3>2, <3>3, <3>4 DEF OpenAttemptBlocksDispatch
    <2> QED
      BY <2>5, <2>6, <2>7
  <1>3. CASE ReservationLost(w) \/ FinalizeLost(w) \/ OutcomeInvalid(w)
             \/ OutcomeLost(w) \/ Abandon(w)
    <2>1. worker' = [worker EXCEPT ![w] = Idle] /\ UNCHANGED <<status, attempts, accepted, cutShort>>
      BY <1>3 DEF ReservationLost, FinalizeLost, OutcomeInvalid, OutcomeLost, Abandon, Return
    <2>2. CallsAreOwned' /\ TakenIsOpen'
      BY <2>1, OutsideCall DEF Idle
    <2>3. OpenAttemptBlocksDispatch'
      <3>1. \A c \in Attempts : Open(c)' <=> Open(c)
        BY <2>1 DEF Open
      <3> QED
        BY <2>1, <3>1 DEF OpenAttemptBlocksDispatch
    <2> QED
      BY <2>2, <2>3
  <1>4. CASE CallProvider(w)
    <2>1. PICK x \in Results, taken \in BOOLEAN, broken \in BOOLEAN :
            /\ x = "accepted" => taken /\ ~broken
            /\ x \in {"retryable", "permanent"} => ~taken \/ broken
            /\ worker' = [worker EXCEPT ![w].pc = "called", ![w].result = x]
            /\ accepted' = IF taken THEN accepted \cup {a} ELSE accepted
            /\ cutShort' = IF taken /\ broken THEN cutShort \cup {a} ELSE cutShort
      BY <1>0, <1>4, CallOutcome
    <2>2. UNCHANGED <<status, attempts>> /\ worker[w].pc = "reserved"
      BY <1>4 DEF CallProvider
    <2>3. /\ worker'[w].pc = "called"
          /\ worker'[w].result = x
          /\ worker'[w].msg = worker[w].msg
          /\ worker'[w].attempt = a
          /\ \A v \in Workers : v # w => worker'[v] = worker[v]
      BY <1>0, <2>1 DEF TypeOK, WorkerStates
    <2>4. \A c \in Attempts : Open(c)' <=> Open(c)
      BY <2>2 DEF Open
    <2>5. CallsAreOwned'
      BY <1>0, <2>2, <2>3 DEF CallsAreOwned, InCall
    <2>6. a \in Attempts /\ Open(a) /\ a \notin accepted /\ a \notin cutShort
      BY <1>0, <2>2, OwnedIsOnlyOpen DEF InCall, TakenIsOpen, TypeOK
    <2>7. \A v \in Workers : v # w /\ InCall(v) => worker[v].attempt # a
      BY <1>0, <2>2 DEF CallsAreOwned, InCall
    <2>8. TakenIsOpen'
      <3>1. /\ \A c \in accepted' : attempts'[c] # None
            /\ \A c \in accepted' \ cutShort' : Open(c)'
        BY <2>1, <2>2, <2>4, <2>6 DEF TakenIsOpen, TypeOK, Open
      <3>2. ASSUME NEW v \in Workers, v # w
            PROVE  /\ worker'[v] = worker[v]
                   /\ InCall(v) =>
                        /\ worker[v].attempt \in accepted' <=> worker[v].attempt \in accepted
                        /\ worker[v].attempt \in cutShort' <=> worker[v].attempt \in cutShort
        BY <2>1, <2>3, <2>7, <3>2
      <3>3. /\ worker'[w].pc = "called" /\ worker'[w].attempt = a
            /\ worker'[w].result = "accepted" => a \in accepted'
            /\ worker'[w].result \in {"retryable", "permanent"} =>
                 a \notin accepted' \ cutShort'
        BY <2>1, <2>3, <2>6
      <3> QED
        BY <3>1, <3>2, <3>3 DEF TakenIsOpen, InCall
    <2> QED
      BY <2>2, <2>4, <2>5, <2>8 DEF OpenAttemptBlocksDispatch
  \* Finalizing: the worker leaves the call and only its own attempt changes.
  <1>5. ASSUME InCall(w), NEW x \in {"ACCEPTED", "FAILED"}, NEW amb \in BOOLEAN,
               FinalizeAttempt(w, x, amb), NEW r,
               worker' = [worker EXCEPT ![w] = r], r.pc \notin {"reserved", "called"},
               r.pc # "idle" => r.msg \in Messages, UNCHANGED <<accepted, cutShort>>
        PROVE  /\ CallsAreOwned'
               /\ attempts'[a].msg = Msg(w)
               /\ attempts'[a].outcome = x
               /\ attempts'[a].isAmbiguous = amb
               /\ \A c \in Attempts : c # a => attempts'[c] = attempts[c]
               /\ \A c \in Attempts : c # a => (Open(c)' <=> Open(c))
               /\ Open(a)' <=> (x = "FAILED" => amb)
               /\ TakenIsOpen' \/ (a \in accepted \ cutShort /\ ~Open(a)')
    <2>1. \A v \in Workers : worker'[v] = IF v = w THEN r ELSE worker[v]
      BY <1>5 DEF TypeOK
    <2>2. a \in Attempts /\ attempts[a] \in AttemptRows /\ attempts[a].msg = Msg(w)
      BY <1>0, <1>5 DEF CallsAreOwned, TypeOK, Msg
    <2>3. /\ attempts'[a] = [attempts[a] EXCEPT !.outcome = x, !.isAmbiguous = amb]
          /\ \A c \in Attempts : c # a => attempts'[c] = attempts[c]
      BY <1>0, <1>5, <2>2 DEF FinalizeAttempt, TypeOK
    <2>4. /\ attempts'[a].msg = Msg(w)
          /\ attempts'[a].outcome = x
          /\ attempts'[a].isAmbiguous = amb
          /\ attempts'[a] # None
      <3>1. attempts'[a] \in AttemptRows
        BY <1>5, <2>2, <2>3 DEF AttemptRows
      <3> QED
        BY <2>2, <2>3, <3>1, NoneIsNothing DEF AttemptRows
    <2>5. \A v \in Workers : v # w /\ InCall(v) => worker[v].attempt # a
      BY <1>0, <1>5 DEF CallsAreOwned
    <2>6. CallsAreOwned'
      BY <1>5, <2>1, <2>3, <2>5 DEF CallsAreOwned, InCall
    <2>7. /\ \A c \in Attempts : c # a => (Open(c)' <=> Open(c))
          /\ Open(a)' <=> (x = "FAILED" => amb)
      <3>1. \A c \in Attempts : c # a => (Open(c)' <=> Open(c))
        BY <2>3 DEF Open
      <3>2. Open(a)' <=> /\ attempts'[a] # None
                         /\ attempts'[a].outcome = "FAILED" => attempts'[a].isAmbiguous
        BY DEF Open
      <3> QED
        BY <2>4, <3>1, <3>2
    <2>8. TakenIsOpen' \/ (a \in accepted \ cutShort /\ ~Open(a)')
      <3>0. /\ accepted' = accepted /\ cutShort' = cutShort
            /\ accepted \subseteq Attempts
            /\ \A c \in accepted : attempts[c] # None
            /\ \A c \in accepted \ cutShort : Open(c)
        BY <1>5 DEF TakenIsOpen, TypeOK
      <3>1. \A c \in accepted' : attempts'[c] # None
        BY <2>3, <2>4, <3>0
      <3>2. Open(a)' \/ a \notin accepted \ cutShort
              => \A c \in accepted' \ cutShort' : Open(c)'
        BY <2>7, <3>0
      <3> QED
        BY <1>5, <2>1, <3>0, <3>1, <3>2 DEF TakenIsOpen
    <2> QED
      BY <2>3, <2>4, <2>6, <2>7, <2>8
  <1>6. CASE FinalizeAccepted(w)
    <2>1. InCall(w) /\ UNCHANGED <<accepted, cutShort>> /\ a \in Attempts
      BY <1>0, <1>6 DEF FinalizeAccepted, InCall, CallsAreOwned
    <2>2. /\ CallsAreOwned'
          /\ attempts'[a].msg = Msg(w)
          /\ \A c \in Attempts : c # a => attempts'[c] = attempts[c]
          /\ \A c \in Attempts : c # a => (Open(c)' <=> Open(c))
          /\ Open(a)'
          /\ TakenIsOpen'
      BY <1>5, <1>6, <2>1 DEF FinalizeAccepted, Return, Idle
    <2>3. OpenAttemptBlocksDispatch'
      <3>1. /\ status'[Msg(w)] = "SENT"
            /\ \A m \in Messages : m # Msg(w) => status'[m] = status[m]
        BY <1>6, <2>1, OwnedIsOnlyOpen DEF FinalizeAccepted, SetStatus, TypeOK
      <3>2. Open(a) /\ attempts[a].msg = Msg(w)
        BY <1>0, <2>1, OwnedIsOnlyOpen
      <3>3. \A c \in Attempts : Open(c) => attempts[c].msg \in Messages
        BY DEF Open, TypeOK, AttemptRows
      <3> QED
        BY <2>1, <2>2, <3>1, <3>2, <3>3 DEF OpenAttemptBlocksDispatch, OutOfDispatch
    <2> QED
      BY <2>2, <2>3
  <1>7. CASE FinalizeAmbiguous(w)
    <2>1. InCall(w) /\ UNCHANGED <<accepted, cutShort>> /\ status' = status /\ a \in Attempts
      BY <1>0, <1>7 DEF FinalizeAmbiguous, InCall, CallsAreOwned
    <2>2. /\ CallsAreOwned'
          /\ attempts'[a].msg = Msg(w)
          /\ \A c \in Attempts : c # a => attempts'[c] = attempts[c]
          /\ \A c \in Attempts : c # a => (Open(c)' <=> Open(c))
          /\ Open(a)'
          /\ TakenIsOpen'
      BY <1>5, <1>7, <2>1 DEF FinalizeAmbiguous, Return, Idle
    <2>3. Open(a) /\ attempts[a].msg = Msg(w)
      BY <1>0, <2>1, OwnedIsOnlyOpen
    <2>4. OpenAttemptBlocksDispatch'
      BY <2>1, <2>2, <2>3 DEF OpenAttemptBlocksDispatch
    <2> QED
      BY <2>2, <2>4
  <1>8. CASE FinalizeFailed(w)
    <2>1. /\ InCall(w) /\ UNCHANGED <<accepted, cutShort>>
          /\ a \in Attempts /\ a \notin accepted \ cutShort
      BY <1>0, <1>8 DEF FinalizeFailed, InCall, CallsAreOwned, TakenIsOpen
    <2> DEFINE r == [worker[w] EXCEPT
                       !.pc = "pass", !.next = worker[w].next + 1,
                       !.allRetryable = worker[w].allRetryable
                                        /\ worker[w].result = "retryable",
                       !.attempt = None, !.result = None]
    <2>2. r.pc = "pass" /\ r.msg = Msg(w) /\ Msg(w) \in Messages
      BY <2>1, OwnedIsOnlyOpen DEF TypeOK, WorkerStates, Msg
    <2>3. worker' = [worker EXCEPT ![w] = r]
      BY <1>8 DEF FinalizeFailed
    <2>4. /\ CallsAreOwned'
          /\ \A c \in Attempts : c # a => attempts'[c] = attempts[c]
          /\ \A c \in Attempts : c # a => (Open(c)' <=> Open(c))
          /\ ~Open(a)'
          /\ TakenIsOpen'
      <3> HIDE DEF r
      <3> QED
        BY <1>5, <1>8, <2>1, <2>2, <2>3 DEF FinalizeFailed
    <2>5. \A c \in Attempts : c # a /\ Open(c) =>
            /\ attempts[c].msg \in Messages
            /\ attempts[c].msg # Msg(w)
      BY <1>0, <2>1, OwnedIsOnlyOpen DEF Open, TypeOK, AttemptRows
    <2>6. \A m \in Messages : m # Msg(w) => status'[m] = status[m]
      BY <1>8, <2>2 DEF FinalizeFailed, SetStatus, TypeOK
    <2>7. OpenAttemptBlocksDispatch'
      BY <2>4, <2>5, <2>6 DEF OpenAttemptBlocksDispatch
    <2> QED
      BY <2>4, <2>7
  <1>9. CASE ValidateOutcome(w)
    <2> DEFINE r == [worker[w] EXCEPT !.pc = "commit"]
    <2>1. r.pc = "commit" /\ r.msg = worker[w].msg /\ worker[w].msg \in Messages
      BY <1>9 DEF ValidateOutcome, PassOver, CallsAreOwned, TypeOK, WorkerStates
    <2>2. worker' = [worker EXCEPT ![w] = r] /\ UNCHANGED <<status, attempts, accepted, cutShort>>
      BY <1>9 DEF ValidateOutcome
    <2>3. CallsAreOwned' /\ TakenIsOpen'
      <3> HIDE DEF r
      <3> QED
        BY <2>1, <2>2, OutsideCall
    <2>4. \A c \in Attempts : Open(c)' <=> Open(c)
      BY <2>2 DEF Open
    <2> QED
      BY <2>2, <2>3, <2>4 DEF OpenAttemptBlocksDispatch
  <1>10. CASE ScheduleRetry(w) \/ MarkFatalFailure(w)
    <2>1. /\ worker' = [worker EXCEPT ![w] = Idle]
          /\ UNCHANGED <<attempts, accepted, cutShort>>
          /\ status[Msg(w)] = "PROCESSING"
      BY <1>10 DEF ScheduleRetry, MarkFatalFailure, Return
    <2>2. CallsAreOwned' /\ TakenIsOpen'
      BY <2>1, OutsideCall DEF Idle
    <2>3. Msg(w) \in Messages
      BY <1>10 DEF ScheduleRetry, MarkFatalFailure, CallsAreOwned, Msg
    <2>4. OpenAttemptBlocksDispatch'
      BY <1>10, <2>1, <2>3, StatusMove DEF ScheduleRetry, MarkFatalFailure, OutOfDispatch
    <2> QED
      BY <2>2, <2>4
  <1> QED
    BY <1>1, <1>2, <1>3, <1>4, <1>6, <1>7, <1>8, <1>9, <1>10 DEF WorkerStep

LEMMA DeliveryStep == DeliveryInv /\ [Next]_vars => DeliveryInv'
  <1>1. DeliveryInv /\ UNCHANGED vars => DeliveryInv'
    <2> SUFFICES ASSUME DeliveryInv, UNCHANGED vars PROVE DeliveryInv'
      OBVIOUS
    <2> QED
      BY DEF DeliveryInv, vars, TypeOK, CallsAreOwned, InCall, TakenIsOpen,
             OpenAttemptBlocksDispatch, Open
  <1>2. DeliveryInv /\ Next => CallsAreOwned' /\ TakenIsOpen' /\ OpenAttemptBlocksDispatch'
    BY DeliveryWorker, DeliveryEnvironment DEF Next
  <1> QED
    BY <1>1, <1>2, TypeStep DEF DeliveryInv

\* The inductive invariant of the dispatch: what is open blocks it, and only what
\* is open was taken.
THEOREM DeliveryInvariant == Spec => []DeliveryInv
  <1>1. Init => DeliveryInv
    BY TypeInit, DeliveryInit DEF DeliveryInv
  <1> QED
    BY <1>1, DeliveryStep, PTL DEF Spec

\* Every variable keeps its type: in particular an attempt is reserved only for
\* an existing message, and finalizing one never meets a missing row.
THEOREM TypeCorrect == Spec => []TypeOK
  BY DeliveryInvariant, PTL DEF DeliveryInv

\* A reserved or undecided provider call keeps its message out of dispatch.
THEOREM OpenAttemptsBlockDispatch == Spec => []OpenAttemptBlocksDispatch
  BY DeliveryInvariant, PTL DEF DeliveryInv

\* No interleaving of workers, crashes, repeated jobs, recovery, expiry, requeue
\* and operators makes providers take a message twice, unless the response of one
\* of the two calls broke off.
THEOREM ProvidersTakeAMessageOnce == Spec => []OnlyCutShortCallsDuplicate
  <1>1. DeliveryInv => OnlyCutShortCallsDuplicate
    BY DEF DeliveryInv, TypeOK, TakenIsOpen, OpenAttemptBlocksDispatch,
           OnlyCutShortCallsDuplicate
  <1> QED
    BY <1>1, DeliveryInvariant, PTL

\* The documented promise hangs on the responses alone: where none breaks off after
\* its status, no message is delivered twice.
THEOREM WholeResponsesPreventDuplicates ==
  ASSUME MaxCutShort = 0
  PROVE  Spec => []NoDuplicateDelivery
  <1> DEFINE NoneCut == cutShort = {}
  <1>1. Init => NoneCut
    BY DEF Init
  <1>2. DeliveryInv /\ NoneCut /\ [Next]_vars => NoneCut'
    <2> SUFFICES ASSUME DeliveryInv, NoneCut, [Next]_vars PROVE NoneCut'
      OBVIOUS
    <2>1. ASSUME NEW w \in Workers, CallProvider(w) PROVE NoneCut'
      <3>1. PICK answer \in AnswersOf(attempts[worker[w].attempt].provider),
                 taken \in BOOLEAN : EndCall(w, answer, taken)
        BY <2>1 DEF CallProvider
      <3>2. ~(taken /\ IsCutShort(answer))
        BY <3>1, FS_EmptySet DEF EndCall
      <3>3. ~taken => {b \in {worker[w].attempt} : taken} = {}
        OBVIOUS
      <3> QED
        BY <3>1, <3>2, <3>3 DEF EndCall
    <2>2. ASSUME NEW w \in Workers, WorkerStep(w) \/ Abandon(w), ~CallProvider(w)
          PROVE  NoneCut'
      BY <2>2
      DEF WorkerStep, BeginProcessing, ReserveProviderAttempt, ReservationLost,
          FinalizeAccepted, FinalizeAmbiguous, FinalizeFailed, FinalizeLost,
          ValidateOutcome, OutcomeInvalid, ScheduleRetry, MarkFatalFailure, OutcomeLost,
          Abandon
    <2>3. EnvironmentStep => UNCHANGED cutShort
      BY EnvironmentActs DEF MessageStep, CreateMessage, RecoverStaleProcessing,
             ExpireAmbiguousOutcome, ResetForRequeue, ApplyDeliveryReport, OperatorStep,
             ValidateResolution, ResolveTwilioAttempt, ResolutionLost
    <2> QED
      BY <2>1, <2>2, <2>3 DEF Next, vars
  <1>3. NoneCut /\ OnlyCutShortCallsDuplicate => NoDuplicateDelivery
    BY DEF OnlyCutShortCallsDuplicate, NoDuplicateDelivery
  <1> QED
    BY <1>1, <1>2, <1>3, DeliveryInvariant, ProvidersTakeAMessageOnce, PTL DEF Spec

-----------------------------------------------------------------------------
(* The status machine.                                                      *)

\* A change of one message's status along the table is a step of the machine.
LEMMA MoveIsAdvance ==
  ASSUME NEW m \in Messages, NEW s, SetStatus(m, s),
         s \in Statuses, IsValidTransition(status[m], s)
  PROVE  StatusMachine!Next
  <1>1. StatusMachine!Advance(m)
    BY DEF StatusMachine!Advance, SetStatus, IsValidTransition,
           StatusMachine!Outgoing, StatusMachine!TransitionTable, TransitionTable,
           StatusMachine!Statuses, Statuses
  <1> QED
    BY <1>1 DEF StatusMachine!Next

LEMMA WorkerFollowsTable ==
  ASSUME DeliveryInv, NEW w \in Workers, WorkerStep(w) \/ Abandon(w)
  PROVE  [StatusMachine!Next]_status
  <1> USE DEF IsValidTransition, TransitionTable, Statuses
  <1>1. ASSUME NEW m \in Messages, BeginProcessing(w, m) PROVE StatusMachine!Next
    BY <1>1, MoveIsAdvance DEF BeginProcessing, BeginProcessingFrom
  <1>2. worker[w].pc # "idle" => Msg(w) \in Messages
    BY DEF DeliveryInv, CallsAreOwned, Msg
  <1>3. ASSUME NEW a \in Attempts, ReserveProviderAttempt(w, a) PROVE StatusMachine!Next
    BY <1>2, <1>3, MoveIsAdvance DEF ReserveProviderAttempt
  <1>4. CASE FinalizeAccepted(w)
    BY <1>2, <1>4, MoveIsAdvance DEF FinalizeAccepted, CanFinalize
  <1>5. CASE FinalizeFailed(w)
    BY <1>2, <1>5, MoveIsAdvance DEF FinalizeFailed, CanFinalize
  <1>6. CASE ScheduleRetry(w)
    BY <1>2, <1>6, MoveIsAdvance DEF ScheduleRetry
  <1>7. CASE MarkFatalFailure(w)
    BY <1>2, <1>7, MoveIsAdvance DEF MarkFatalFailure
  <1>8. CASE \/ ReservationLost(w) \/ CallProvider(w) \/ FinalizeAmbiguous(w)
             \/ FinalizeLost(w) \/ ValidateOutcome(w) \/ OutcomeInvalid(w)
             \/ OutcomeLost(w) \/ Abandon(w)
    BY <1>8 DEF ReservationLost, CallProvider, FinalizeAmbiguous, FinalizeLost,
                ValidateOutcome, OutcomeInvalid, OutcomeLost, Abandon
  <1> QED
    BY <1>1, <1>3, <1>4, <1>5, <1>6, <1>7, <1>8 DEF WorkerStep

LEMMA EnvironmentFollowsTable ==
  ASSUME TypeOK, EnvironmentStep
  PROVE  [StatusMachine!Next]_status
  <1>1. ASSUME NEW m \in Messages, CreateMessage(m) PROVE StatusMachine!Next
    BY <1>1 DEF CreateMessage, SetStatus, NoMessage, StatusMachine!Create,
                StatusMachine!NoMessage, StatusMachine!Next
  <1>2. ASSUME NEW m \in Messages, RecoverStaleProcessing(m) PROVE StatusMachine!Next
    BY <1>2, MoveIsAdvance
    DEF RecoverStaleProcessing, IsValidTransition, TransitionTable, Statuses
  <1>3. ASSUME NEW m \in Messages, ExpireAmbiguousOutcome(m) PROVE StatusMachine!Next
    BY <1>3, MoveIsAdvance
    DEF ExpireAmbiguousOutcome, IsValidTransition, TransitionTable, Statuses
  <1>4. ASSUME NEW m \in Messages, ResetForRequeue(m) PROVE StatusMachine!Next
    BY <1>4 DEF ResetForRequeue, SetStatus, StatusMachine!Requeue, StatusMachine!Next
  <1>5. ASSUME NEW a \in Attempts, NEW r \in ReportStatuses, ApplyDeliveryReport(a, r)
        PROVE StatusMachine!Next
    BY <1>5, MoveIsAdvance DEF ApplyDeliveryReport, ReportStatuses, Statuses
  <1>6. ASSUME NEW o \in Operators, ResolveTwilioAttempt(o) PROVE StatusMachine!Next
    <2>1. operator[o].msg \in Messages
      BY <1>6 DEF ResolveTwilioAttempt, TypeOK, ResolutionRequests
    <2> QED
      BY <1>6, <2>1, MoveIsAdvance
      DEF ResolveTwilioAttempt, IsValidTransition, TransitionTable, Statuses
  <1>7. ASSUME NEW o \in Operators,
               ResolutionLost(o) \/ \E m \in Messages, a \in Attempts, r \in Resolutions :
                                     ValidateResolution(o, m, a, r)
        PROVE UNCHANGED status
    BY <1>7 DEF ResolutionLost, ValidateResolution
  <1> QED
    BY <1>1, <1>2, <1>3, <1>4, <1>5, <1>6, <1>7, EnvironmentActs
    DEF MessageStep, OperatorStep

\* The repository implements the documented status machine: whoever writes the
\* status, it moves along the table or is reset by the administrative requeue.
THEOREM RepositoryImplementsStatusSpec == Spec => ImplementsStatusSpec
  <1>1. Init => StatusMachine!Init
    BY DEF Init, StatusMachine!Init, NoMessage, StatusMachine!NoMessage
  <1>2. DeliveryInv /\ [Next]_vars => [StatusMachine!Next]_status
    <2>1. UNCHANGED vars => UNCHANGED status
      BY DEF vars
    <2> QED
      BY <2>1, WorkerFollowsTable, EnvironmentFollowsTable DEF Next, DeliveryInv
  <1> QED
    BY <1>1, <1>2, DeliveryInvariant, PTL
    DEF Spec, ImplementsStatusSpec, StatusMachine!Spec

-----------------------------------------------------------------------------
(* Correlation with the provider, and resolutions.                          *)

\* An attempt row, once written, belongs to its message, and its provider, for ever.
LEMMA AttemptsKeepTheirMessage ==
  ASSUME DeliveryInv, [Next]_vars
  PROVE  /\ accepted \subseteq accepted' /\ cutShort \subseteq cutShort'
         /\ \A a \in Attempts : attempts[a] # None =>
              /\ attempts'[a] # None
              /\ attempts'[a].msg = attempts[a].msg
              /\ attempts'[a].provider = attempts[a].provider
  <1> DEFINE Kept == /\ accepted \subseteq accepted' /\ cutShort \subseteq cutShort'
                     /\ \A a \in Attempts : attempts[a] # None =>
                          /\ attempts'[a] # None
                          /\ attempts'[a].msg = attempts[a].msg
                          /\ attempts'[a].provider = attempts[a].provider
  <1>1. CASE UNCHANGED <<attempts, accepted, cutShort>>
    BY <1>1
  <1>2. ASSUME NEW w \in Workers, NEW a \in Attempts, ReserveProviderAttempt(w, a) PROVE Kept
    BY <1>2 DEF ReserveProviderAttempt, DeliveryInv, TypeOK
  <1>3. ASSUME NEW w \in Workers, CallProvider(w) PROVE Kept
    BY <1>3 DEF CallProvider, EndCall
  <1>4. ASSUME NEW w \in Workers, NEW x \in {"ACCEPTED", "FAILED"}, NEW b \in BOOLEAN,
               InCall(w), FinalizeAttempt(w, x, b), UNCHANGED <<accepted, cutShort>>
        PROVE Kept
    <2>1. PICK a \in Attempts : a = worker[w].attempt
      BY <1>4 DEF DeliveryInv, CallsAreOwned
    <2>2. attempts[a] \in AttemptRows
      BY <1>4, <2>1 DEF DeliveryInv, CallsAreOwned, TypeOK
    <2>3. /\ attempts'[a] = [attempts[a] EXCEPT !.outcome = x, !.isAmbiguous = b]
          /\ \A c \in Attempts : c # a => attempts'[c] = attempts[c]
      BY <1>4, <2>1, <2>2 DEF FinalizeAttempt, DeliveryInv, TypeOK
    <2>4. /\ attempts'[a] \in AttemptRows
          /\ attempts'[a].msg = attempts[a].msg
          /\ attempts'[a].provider = attempts[a].provider
      BY <1>4, <2>2, <2>3 DEF AttemptRows
    <2> QED
      BY <1>4, <2>3, <2>4, NoneIsNothing
  <1>5. ASSUME NEW w \in Workers, WorkerStep(w) \/ Abandon(w) PROVE Kept
    <2>1. CASE FinalizeAccepted(w)
      BY <1>4, <2>1 DEF FinalizeAccepted, InCall
    <2>2. CASE FinalizeAmbiguous(w)
      BY <1>4, <2>2 DEF FinalizeAmbiguous, InCall
    <2>3. CASE FinalizeFailed(w)
      BY <1>4, <2>3 DEF FinalizeFailed, InCall
    <2> QED
      BY <1>1, <1>2, <1>3, <1>5, <2>1, <2>2, <2>3
      DEF WorkerStep, BeginProcessing, ReservationLost, FinalizeLost, ValidateOutcome,
          OutcomeInvalid, ScheduleRetry, MarkFatalFailure, OutcomeLost, Abandon
  <1>6. EnvironmentStep => UNCHANGED <<attempts, accepted, cutShort>>
    BY EnvironmentActs DEF MessageStep, CreateMessage, RecoverStaleProcessing,
           ExpireAmbiguousOutcome, ResetForRequeue, ApplyDeliveryReport, OperatorStep,
           ValidateResolution, ResolveTwilioAttempt, ResolutionLost
  <1> QED
    BY <1>1, <1>5, <1>6 DEF Next, vars

\* By the status machine a settled message stays settled.
LEMMA SettledStays ==
  ASSUME DeliveryInv, [Next]_vars, NEW m \in Messages, status[m] \in Settled
  PROVE  status'[m] \in Settled
  <1>1. [StatusMachine!Next]_status
    <2>1. UNCHANGED vars => UNCHANGED status
      BY DEF vars
    <2> QED
      BY <2>1, WorkerFollowsTable, EnvironmentFollowsTable DEF Next, DeliveryInv
  <1>2. ASSUME NEW n \in Messages, StatusMachine!Advance(n) PROVE status'[m] \in Settled
    BY <1>2 DEF StatusMachine!Advance, StatusMachine!Outgoing, Settled,
                StatusMachine!TransitionTable, DeliveryInv, TypeOK
  <1> QED
    BY <1>1, <1>2 DEF StatusMachine!Next, StatusMachine!Create, StatusMachine!Requeue,
                      Settled, StatusMachine!NoMessage, DeliveryInv, TypeOK

\* What CorrelationInv says of one message and of one operator.
Correlated(m) ==
  /\ status[m] \in {"SENT", "DELIVERED", "REJECTED"} => providerMessageId[m] # None
  /\ providerMessageId[m] # None =>
       /\ providerMessageId[m] \in accepted
       /\ attempts[providerMessageId[m]].msg = m

Evident(o) ==
  operator[o] # None =>
    /\ attempts[operator[o].attempt] # None
    /\ attempts[operator[o].attempt].msg = operator[o].msg
    /\ operator[o].resolution = "KNOWN_SID" => operator[o].attempt \in accepted

LEMMA CorrelationStep ==
  ASSUME DeliveryInv, CorrelationInv, [Next]_vars
  PROVE  CorrelationInv'
  <1>1. /\ \A m \in Messages : Correlated(m)
        /\ \A o \in Operators : Evident(o)
    BY DEF CorrelationInv, Correlated, Evident
  \* Nothing is lost while a message, or an operator, is left alone.
  <1>2. ASSUME NEW m \in Messages, providerMessageId'[m] = providerMessageId[m],
               status'[m] \in {"SENT", "DELIVERED", "REJECTED"} =>
                 providerMessageId[m] # None
        PROVE Correlated(m)'
    <2>1. providerMessageId[m] # None =>
            /\ providerMessageId[m] \in accepted'
            /\ attempts'[providerMessageId[m]].msg = m
      <3>1. \A a \in accepted : a \in Attempts /\ attempts[a] # None
        BY DEF DeliveryInv, TypeOK, TakenIsOpen, Open
      <3> QED
        BY <1>1, <3>1, AttemptsKeepTheirMessage DEF Correlated
    <2> QED
      BY <1>2, <2>1 DEF Correlated
  <1>3. ASSUME NEW o \in Operators, operator'[o] = operator[o] PROVE Evident(o)'
    <2>1. operator[o] # None => operator[o].attempt \in Attempts
      BY DEF DeliveryInv, TypeOK, ResolutionRequests
    <2> QED
      BY <1>1, <1>3, <2>1, AttemptsKeepTheirMessage DEF Evident
  <1>4. (\A m \in Messages : Correlated(m)') /\ (\A o \in Operators : Evident(o)')
          => CorrelationInv'
    BY DEF CorrelationInv, Correlated, Evident
  <1>5. ASSUME UNCHANGED <<providerMessageId, operator>>,
               \A m \in Messages : status'[m] \in {"SENT", "DELIVERED", "REJECTED"} =>
                  status[m] \in {"SENT", "DELIVERED", "REJECTED"}
                    \/ providerMessageId[m] # None
        PROVE CorrelationInv'
    BY <1>1, <1>2, <1>3, <1>4, <1>5 DEF Correlated
  <1>6. ASSUME NEW w \in Workers, FinalizeAccepted(w) PROVE CorrelationInv'
    <2>1. PICK a \in Attempts, m \in Messages : a = worker[w].attempt /\ m = Msg(w)
      BY <1>6 DEF FinalizeAccepted, InCall, DeliveryInv, CallsAreOwned, Msg
    <2>2. attempts[a] # None /\ attempts[a].msg = m /\ a \in accepted
      BY <1>6, <2>1
      DEF FinalizeAccepted, InCall, DeliveryInv, CallsAreOwned, TakenIsOpen, Msg
    <2>3. /\ providerMessageId' = [providerMessageId EXCEPT ![m] = a]
          /\ status' = [status EXCEPT ![m] = "SENT"]
          /\ operator' = operator
      BY <1>6, <2>1 DEF FinalizeAccepted, SetStatus
    <2>4. Correlated(m)'
      <3>1. providerMessageId'[m] = a
        BY <2>3 DEF DeliveryInv, TypeOK
      <3>2. a # None /\ a \in accepted' /\ attempts'[a].msg = m
        BY <2>2, AttemptsKeepTheirMessage, NoneIsNothing
      <3> QED
        BY <3>1, <3>2 DEF Correlated
    <2>5. \A n \in Messages : n # m => Correlated(n)'
      BY <1>1, <1>2, <2>3 DEF DeliveryInv, TypeOK, Correlated
    <2> QED
      BY <1>3, <1>4, <2>3, <2>4, <2>5
  <1>7. ASSUME NEW w \in Workers, WorkerStep(w) \/ Abandon(w) PROVE CorrelationInv'
    <2>1. CASE FinalizeAccepted(w)
      BY <1>6, <2>1
    <2>2. CASE ~FinalizeAccepted(w)
      <3>1. UNCHANGED <<providerMessageId, operator>>
        BY <1>7, <2>2
        DEF WorkerStep, BeginProcessing, ReserveProviderAttempt, ReservationLost,
            CallProvider, FinalizeAmbiguous, FinalizeFailed, FinalizeLost, ValidateOutcome,
            OutcomeInvalid, ScheduleRetry, MarkFatalFailure, OutcomeLost, Abandon
      <3>2. \/ UNCHANGED status
            \/ \E m \in Messages, s \in {"PROCESSING", "AWAITING_PROVIDER_RESULT",
                                        "RETRY_SCHEDULED", "FATAL_FAILURE"} : SetStatus(m, s)
        <4>1. worker[w].pc # "idle" => Msg(w) \in Messages
          BY DEF DeliveryInv, CallsAreOwned, Msg
        <4> QED
          BY <1>7, <2>2, <4>1
          DEF WorkerStep, BeginProcessing, ReserveProviderAttempt, ReservationLost,
              CallProvider, FinalizeAmbiguous, FinalizeFailed, FinalizeLost, ValidateOutcome,
              OutcomeInvalid, ScheduleRetry, MarkFatalFailure, OutcomeLost, Abandon
      <3>3. \A m \in Messages : status'[m] \in {"SENT", "DELIVERED", "REJECTED"} =>
                               status[m] \in {"SENT", "DELIVERED", "REJECTED"}
        BY <3>2 DEF SetStatus, DeliveryInv, TypeOK
      <3> QED
        BY <1>5, <3>1, <3>3
    <2> QED
      BY <2>1, <2>2
  <1>8. ASSUME NEW m \in Messages, MessageStep(m) PROVE CorrelationInv'
    <2>1. UNCHANGED <<providerMessageId, operator>>
      BY <1>8 DEF MessageStep, CreateMessage, RecoverStaleProcessing,
                  ExpireAmbiguousOutcome, ResetForRequeue
    <2>2. PICK s \in {"QUEUED", "RETRY_SCHEDULED", "UNDELIVERED"} : SetStatus(m, s)
      BY <1>8 DEF MessageStep, CreateMessage, RecoverStaleProcessing,
                  ExpireAmbiguousOutcome, ResetForRequeue
    <2> QED
      BY <1>5, <2>1, <2>2 DEF SetStatus, DeliveryInv, TypeOK
  <1>9. ASSUME NEW a \in Attempts, NEW r \in ReportStatuses, ApplyDeliveryReport(a, r)
        PROVE CorrelationInv'
    <2>1. PICK m \in Messages : providerMessageId[m] = a /\ SetStatus(m, r)
      BY <1>9 DEF ApplyDeliveryReport
    <2>2. UNCHANGED <<providerMessageId, operator>>
      BY <1>9 DEF ApplyDeliveryReport
    <2>3. a # None
      BY NoneIsNothing
    <2> QED
      BY <1>5, <2>1, <2>2, <2>3 DEF SetStatus, DeliveryInv, TypeOK
  <1>10. ASSUME NEW o \in Operators, OperatorStep(o) PROVE CorrelationInv'
    <2>1. ASSUME NEW m \in Messages, NEW a \in Attempts, NEW r \in Resolutions,
                 ValidateResolution(o, m, a, r)
          PROVE CorrelationInv'
      <3>1. /\ operator' = [operator EXCEPT ![o] =
                              [msg |-> m, attempt |-> a, resolution |-> r]]
            /\ UNCHANGED <<status, providerMessageId, attempts, accepted, cutShort>>
            /\ attempts[a] # None /\ attempts[a].msg = m
            /\ r = "KNOWN_SID" => a \in accepted
        BY <2>1 DEF ValidateResolution
      <3>2. Evident(o)'
        <4>1. operator'[o] = [msg |-> m, attempt |-> a, resolution |-> r]
          BY <3>1 DEF DeliveryInv, TypeOK
        <4> QED
          BY <3>1, <4>1 DEF Evident
      <3>3. \A p \in Operators : p # o => Evident(p)'
        BY <1>3, <3>1 DEF DeliveryInv, TypeOK
      <3>4. \A n \in Messages : Correlated(n)'
        BY <1>1, <1>2, <3>1 DEF Correlated
      <3> QED
        BY <1>4, <3>2, <3>3, <3>4
    <2>2. CASE ResolveTwilioAttempt(o)
      <3>1. PICK m \in Messages, a \in Attempts, r \in Resolutions :
              operator[o] = [msg |-> m, attempt |-> a, resolution |-> r]
        BY <2>2 DEF ResolveTwilioAttempt, DeliveryInv, TypeOK, ResolutionRequests
      <3>2. /\ operator' = [operator EXCEPT ![o] = None]
            /\ SetStatus(m, IF r = "KNOWN_SID" THEN "SENT" ELSE "UNDELIVERED")
            /\ providerMessageId' = IF r = "KNOWN_SID"
                                    THEN [providerMessageId EXCEPT ![m] = a]
                                    ELSE providerMessageId
        BY <2>2, <3>1 DEF ResolveTwilioAttempt
      <3>3. attempts[a] # None /\ attempts[a].msg = m /\ (r = "KNOWN_SID" => a \in accepted)
        BY <1>1, <2>2, <3>1 DEF Evident, ResolveTwilioAttempt
      <3>4. \A p \in Operators : Evident(p)'
        <4>1. \A p \in Operators : p # o => Evident(p)'
          BY <1>3, <3>2 DEF DeliveryInv, TypeOK
        <4>2. Evident(o)'
          BY <3>2 DEF DeliveryInv, TypeOK, Evident
        <4> QED
          BY <4>1, <4>2
      <3>5. \A n \in Messages : n # m => Correlated(n)'
        BY <1>1, <1>2, <3>2 DEF SetStatus, DeliveryInv, TypeOK, Correlated
      <3>6. CASE r = "KNOWN_SID"
        <4>1. Correlated(m)'
          <5>1. providerMessageId'[m] = a
            BY <3>2, <3>6 DEF DeliveryInv, TypeOK
          <5>2. a # None /\ a \in accepted' /\ attempts'[a].msg = m
            BY <3>3, <3>6, AttemptsKeepTheirMessage, NoneIsNothing
          <5> QED
            BY <5>1, <5>2 DEF Correlated
        <4> QED
          BY <1>4, <3>4, <3>5, <4>1
      <3>7. CASE r # "KNOWN_SID"
        <4>1. Correlated(m)'
          BY <1>2, <3>2, <3>7 DEF SetStatus, DeliveryInv, TypeOK
        <4> QED
          BY <1>4, <3>4, <3>5, <4>1
      <3> QED
        BY <3>6, <3>7
    <2>3. CASE ResolutionLost(o)
      <3>1. /\ operator' = [operator EXCEPT ![o] = None]
            /\ UNCHANGED <<status, providerMessageId>>
        BY <2>3 DEF ResolutionLost
      <3>2. \A p \in Operators : Evident(p)'
        <4>1. \A p \in Operators : p # o => Evident(p)'
          BY <1>3, <3>1 DEF DeliveryInv, TypeOK
        <4>2. Evident(o)'
          BY <3>1 DEF DeliveryInv, TypeOK, Evident
        <4> QED
          BY <4>1, <4>2
      <3>3. \A n \in Messages : Correlated(n)'
        BY <1>1, <1>2, <3>1 DEF Correlated
      <3> QED
        BY <1>4, <3>2, <3>3
    <2> QED
      BY <1>10, <2>1, <2>2, <2>3 DEF OperatorStep
  <1>11. UNCHANGED vars => CorrelationInv'
    BY <1>5 DEF vars
  <1> QED
    BY <1>7, <1>8, <1>9, <1>10, <1>11, EnvironmentActs DEF Next

\* A message shown as sent, delivered or rejected was taken by the provider whose
\* message id it carries, and no other message carries that id.
THEOREM SentMessagesAreCorrelated == Spec => []SentIsCorrelated
  <1>1. Init => CorrelationInv
    BY NoneIsNothing DEF Init, CorrelationInv, NoMessage
  <1>2. CorrelationInv => SentIsCorrelated
    BY DEF CorrelationInv, SentIsCorrelated
  <1> QED
    BY <1>1, <1>2, CorrelationStep, DeliveryInvariant, PTL DEF Spec

LEMMA ResolutionStep ==
  ASSUME DeliveryInv, CorrelationInv, ResolutionInv, [Next]_vars
  PROVE  ResolutionInv'
  \* What is already resolved stays resolved, on a settled message.
  <1>1. \A a \in Attempts : resolutions[a] # None =>
          /\ attempts'[a] # None
          /\ attempts'[a].msg = attempts[a].msg
          /\ status'[attempts[a].msg] \in Settled
    <2> SUFFICES ASSUME NEW a \in Attempts, resolutions[a] # None
                 PROVE  /\ attempts'[a] # None
                        /\ attempts'[a].msg = attempts[a].msg
                        /\ status'[attempts[a].msg] \in Settled
      OBVIOUS
    <2>1. attempts[a] # None /\ status[attempts[a].msg] \in Settled
      BY DEF ResolutionInv
    <2>2. attempts[a].msg \in Messages
      BY <2>1 DEF DeliveryInv, TypeOK, AttemptRows
    <2> QED
      BY <2>1, <2>2, AttemptsKeepTheirMessage, SettledStays
  <1>2. CASE UNCHANGED resolutions
    BY <1>1, <1>2 DEF ResolutionInv, OneResolutionPerMessage
  <1>3. ASSUME NEW o \in Operators, ResolveTwilioAttempt(o) PROVE ResolutionInv'
    <2>1. PICK m \in Messages, a \in Attempts, r \in Resolutions :
            operator[o] = [msg |-> m, attempt |-> a, resolution |-> r]
      BY <1>3 DEF ResolveTwilioAttempt, DeliveryInv, TypeOK, ResolutionRequests
    <2>2. attempts[a] # None /\ attempts[a].msg = m /\ attempts' = attempts
      BY <1>3, <2>1 DEF ResolveTwilioAttempt, CorrelationInv
    <2>3. status[m] \notin Settled /\ status'[m] \in Settled
      BY <1>3, <2>1 DEF ResolveTwilioAttempt, SetStatus, Settled, DeliveryInv, TypeOK
    <2>4. \A b \in Attempts : b # a => resolutions'[b] = resolutions[b]
      BY <1>3, <2>1 DEF ResolveTwilioAttempt, DeliveryInv, TypeOK
    <2>5. \A b \in Attempts : resolutions[b] # None => attempts[b].msg # m
      BY <2>3 DEF ResolutionInv
    <2> QED
      BY <1>1, <2>2, <2>3, <2>4, <2>5 DEF ResolutionInv, OneResolutionPerMessage
  <1>4. \/ UNCHANGED resolutions
        \/ \E o \in Operators : ResolveTwilioAttempt(o)
    BY EnvironmentActs
    DEF Next, WorkerStep, BeginProcessing, ReserveProviderAttempt, ReservationLost,
           CallProvider, FinalizeAccepted, FinalizeAmbiguous, FinalizeFailed, FinalizeLost,
           ValidateOutcome, OutcomeInvalid, ScheduleRetry, MarkFatalFailure, OutcomeLost,
           Abandon, MessageStep, CreateMessage, RecoverStaleProcessing,
           ExpireAmbiguousOutcome, ResetForRequeue, ApplyDeliveryReport, OperatorStep,
           ValidateResolution, ResolutionLost, vars
  <1> QED
    BY <1>2, <1>3, <1>4

\* Over all its attempts a message gets at most one audited resolution, although
\* operators validate before they write and the worker may change the attempt
\* under them.
THEOREM MessagesAreResolvedOnce == Spec => []OneResolutionPerMessage
  <1>1. Init => CorrelationInv /\ ResolutionInv
    BY NoneIsNothing
    DEF Init, CorrelationInv, ResolutionInv, OneResolutionPerMessage, NoMessage
  <1>2. ResolutionInv => OneResolutionPerMessage
    BY DEF ResolutionInv
  <1> QED
    BY <1>1, <1>2, CorrelationStep, ResolutionStep, DeliveryInvariant, PTL DEF Spec

\* An audit row is never rewritten.
THEOREM ResolutionsNeverChange == Spec => ResolutionsImmutable
  <1>1. ASSUME DeliveryInv, CorrelationInv, ResolutionInv, [Next]_vars
        PROVE  [\A a \in Attempts : resolutions[a] # None =>
                  resolutions'[a] = resolutions[a]]_vars
    <2>1. ASSUME NEW o \in Operators, ResolveTwilioAttempt(o), NEW a \in Attempts,
                 resolutions[a] # None
          PROVE  resolutions'[a] = resolutions[a]
      <3>1. attempts[a].msg # operator[o].msg
        BY <1>1, <2>1 DEF ResolutionInv, ResolveTwilioAttempt, Settled
      <3>2. attempts[operator[o].attempt].msg = operator[o].msg
        BY <1>1, <2>1 DEF CorrelationInv, ResolveTwilioAttempt
      <3> QED
        BY <1>1, <2>1, <3>1, <3>2 DEF ResolveTwilioAttempt, DeliveryInv, TypeOK
    <2>2. \/ UNCHANGED resolutions
          \/ \E o \in Operators : ResolveTwilioAttempt(o)
      BY <1>1, EnvironmentActs
      DEF Next, WorkerStep, BeginProcessing, ReserveProviderAttempt, ReservationLost,
          CallProvider, FinalizeAccepted, FinalizeAmbiguous, FinalizeFailed, FinalizeLost,
          ValidateOutcome, OutcomeInvalid, ScheduleRetry, MarkFatalFailure, OutcomeLost,
          Abandon, MessageStep, CreateMessage, RecoverStaleProcessing,
          ExpireAmbiguousOutcome, ResetForRequeue, ApplyDeliveryReport, OperatorStep,
          ValidateResolution, ResolutionLost, vars
    <2> QED
      BY <2>1, <2>2
  <1>2. Init => CorrelationInv /\ ResolutionInv
    BY NoneIsNothing
    DEF Init, CorrelationInv, ResolutionInv, OneResolutionPerMessage, NoMessage
  <1> QED
    BY <1>1, <1>2, CorrelationStep, ResolutionStep, DeliveryInvariant, PTL
    DEF Spec, ResolutionsImmutable

-----------------------------------------------------------------------------
(* The provider's id on a row.                                              *)

LEMMA IdsStep ==
  ASSUME DeliveryInv, IdsAreSettled, [Next]_vars
  PROVE  IdsAreSettled'
  <1> SUFFICES ASSUME NEW m \in Messages, providerMessageId'[m] # None
               PROVE  status'[m] \in Settled
    BY DEF IdsAreSettled
  <1>1. CASE providerMessageId'[m] = providerMessageId[m]
    BY <1>1, SettledStays DEF IdsAreSettled
  <1>2. ASSUME NEW w \in Workers, FinalizeAccepted(w),
               providerMessageId'[m] # providerMessageId[m]
        PROVE  status'[m] \in Settled
    <2>1. Msg(w) = m
      BY <1>2 DEF FinalizeAccepted, DeliveryInv, TypeOK
    <2> QED
      BY <1>2, <2>1 DEF FinalizeAccepted, SetStatus, Settled, DeliveryInv, TypeOK
  <1>3. ASSUME NEW o \in Operators, ResolveTwilioAttempt(o)
        PROVE  status'[m] \in Settled
    <2>1. CASE operator[o].msg = m
      BY <1>3, <2>1 DEF ResolveTwilioAttempt, SetStatus, Settled, DeliveryInv, TypeOK
    <2>2. CASE operator[o].msg # m
      BY <1>1, <1>3, <2>2 DEF ResolveTwilioAttempt, DeliveryInv, TypeOK
    <2> QED
      BY <2>1, <2>2
  <1>4. \/ UNCHANGED providerMessageId
        \/ \E w \in Workers : FinalizeAccepted(w)
        \/ \E o \in Operators : ResolveTwilioAttempt(o)
    BY EnvironmentActs
    DEF Next, WorkerStep, BeginProcessing, ReserveProviderAttempt, ReservationLost,
        CallProvider, FinalizeAmbiguous, FinalizeFailed, FinalizeLost, ValidateOutcome,
        OutcomeInvalid, ScheduleRetry, MarkFatalFailure, OutcomeLost, Abandon, MessageStep,
        CreateMessage, RecoverStaleProcessing, ExpireAmbiguousOutcome, ResetForRequeue,
        ApplyDeliveryReport, OperatorStep, ValidateResolution, ResolutionLost, vars
  <1> QED
    BY <1>1, <1>2, <1>3, <1>4

\* A row carries a provider's id only once it is settled.  applyDeliveryReport
\* finds rows by that id alone: no report can reach a message that waits for the
\* outcome of a call (the finding of v_callback).
THEOREM OnlySettledMessagesCarryIds == Spec => []IdsAreSettled
  <1>1. Init => IdsAreSettled
    BY NoneIsNothing DEF Init, IdsAreSettled
  <1> QED
    BY <1>1, IdsStep, DeliveryInvariant, PTL DEF Spec

-----------------------------------------------------------------------------
(* The promise.                                                             *)

\* What was taken by whom, and answered how, changes only with the calls.
LEMMA TakenByStays ==
  ASSUME DeliveryInv, [Next]_vars, NEW m \in Messages
  PROVE  /\ TakenBy(m)' =
              TakenBy(m) \cup {a \in (accepted' \ accepted) : attempts'[a].msg = m}
         /\ CutShortOf(m)' =
              CutShortOf(m) \cup {a \in (cutShort' \ cutShort) : attempts'[a].msg = m}
  <1>1. \A a \in accepted : attempts'[a].msg = attempts[a].msg /\ a \in accepted'
    BY AttemptsKeepTheirMessage DEF DeliveryInv, TypeOK, TakenIsOpen
  <1>2. \A a \in cutShort : attempts'[a].msg = attempts[a].msg /\ a \in cutShort'
    BY <1>1, AttemptsKeepTheirMessage DEF DeliveryInv, TypeOK
  <1> QED
    BY <1>1, <1>2 DEF TakenBy, CutShortOf

\* Who is startable, claimed or dead was not taken, as far as a whole response tells.
LEMMA DispatchedIsFree ==
  ASSUME DeliveryInv, NEW m \in Messages, status[m] \notin OutOfDispatch
  PROVE  TakenBy(m) \subseteq CutShortOf(m)
  BY DEF DeliveryInv, TakenIsOpen, OpenAttemptBlocksDispatch, TypeOK, TakenBy, CutShortOf

LEMMA FreeIsUntaken ==
  ASSUME NEW m \in Messages
  PROVE  Promise!Free(m) <=> TakenBy(m) \subseteq CutShortOf(m)
  BY DEF Promise!Free

\* A step that changes one status is a move of that message's phase.
LEMMA StatusIsMove ==
  ASSUME DeliveryInv, [Next]_vars, NEW m \in Messages, NEW s,
         SetStatus(m, s), UNCHANGED <<accepted, cutShort>>
  PROVE  Promise!Move(m, PhaseOf(status[m]), PhaseOf(s))
  <1>1. \A n \in Messages : TakenBy(n)' = TakenBy(n) /\ CutShortOf(n)' = CutShortOf(n)
    BY TakenByStays
  <1>2. \A n \in Messages : PhaseOf(status[n])' = IF n = m THEN PhaseOf(s)
                                                           ELSE PhaseOf(status[n])
    BY DEF SetStatus, DeliveryInv, TypeOK, PhaseOf
  <1>3. /\ [n \in Messages |-> TakenBy(n)]' = [n \in Messages |-> TakenBy(n)]
        /\ [n \in Messages |-> CutShortOf(n)]' = [n \in Messages |-> CutShortOf(n)]
    BY <1>1
  <1>4. [n \in Messages |-> PhaseOf(status[n])]' =
          [[n \in Messages |-> PhaseOf(status[n])] EXCEPT ![m] = PhaseOf(s)]
    BY <1>2
  <1> QED
    BY <1>3, <1>4 DEF Promise!Move

\* A step that touches neither is none of the caller's business.
LEMMA QuietIsStutter ==
  ASSUME DeliveryInv, [Next]_vars, UNCHANGED <<status, accepted, cutShort>>
  PROVE  UNCHANGED Promise!vars
  <1>1. \A n \in Messages : TakenBy(n)' = TakenBy(n) /\ CutShortOf(n)' = CutShortOf(n)
    BY TakenByStays
  <1>2. \A n \in Messages : PhaseOf(status[n])' = PhaseOf(status[n])
    BY DEF PhaseOf
  <1> QED
    BY <1>1, <1>2 DEF Promise!vars

\* So is a move that stays in its phase.
LEMMA SamePhaseIsStutter ==
  ASSUME NEW m \in Messages, NEW p, Promise!Move(m, p, p)
  PROVE  UNCHANGED Promise!vars
  BY DEF Promise!Move, Promise!vars

LEMMA PhaseTable ==
  /\ PhaseOf(NoMessage) = "unknown"
  /\ \A s \in {"QUEUED", "PROCESSING", "RETRY_SCHEDULED"} : PhaseOf(s) = "waiting"
  /\ PhaseOf("AWAITING_PROVIDER_RESULT") = "calling"
  /\ PhaseOf("FATAL_FAILURE") = "dead"
  /\ \A s \in Settled : PhaseOf(s) = s
  BY DEF PhaseOf, NoMessage, Settled

\* The call takes the message while no other call did for certain.
LEMMA CallIsTake ==
  ASSUME DeliveryInv, [Next]_vars, NEW w \in Workers, CallProvider(w)
  PROVE  [Promise!Next]_(Promise!vars)
  <1>1. PICK a \in Attempts, m \in Messages :
          /\ a = worker[w].attempt /\ attempts[a] # None /\ attempts[a].msg = m
          /\ attempts[a].outcome = "RESERVED" /\ a \notin accepted
    BY DEF CallProvider, DeliveryInv, CallsAreOwned, InCall, TakenIsOpen
  <1>2. Open(a)
    BY <1>1 DEF Open
  <1>3. TakenBy(m) \subseteq CutShortOf(m)
    BY <1>1, <1>2
    DEF DeliveryInv, TypeOK, TakenIsOpen, OpenAttemptBlocksDispatch, TakenBy, CutShortOf
  <1>4. status[m] \in OutOfDispatch
    BY <1>1, <1>2 DEF DeliveryInv, OpenAttemptBlocksDispatch
  <1>5. PhaseOf(status[m]) \notin {"unknown", "waiting", "dead"}
    BY <1>4 DEF PhaseOf, NoMessage, OutOfDispatch
  <1>6. UNCHANGED <<status, attempts>>
    BY DEF CallProvider
  <1>7. PICK taken \in BOOLEAN, broken \in BOOLEAN :
          /\ accepted' = IF taken THEN accepted \cup {a} ELSE accepted
          /\ cutShort' = IF taken /\ broken THEN cutShort \cup {a} ELSE cutShort
    BY <1>1, CallOutcome DEF DeliveryInv
  <1>8. CASE ~taken
    BY <1>6, <1>7, <1>8, QuietIsStutter
  <1>9. CASE taken
    <2> DEFINE takes == [n \in Messages |-> TakenBy(n)]
               cuts == [n \in Messages |-> CutShortOf(n)]
    <2>1. takes' = [takes EXCEPT ![m] = @ \cup {a}]
      <3>1. \A n \in Messages :
              TakenBy(n)' = IF n = m THEN TakenBy(n) \cup {a} ELSE TakenBy(n)
        BY <1>1, <1>6, <1>7, <1>9 DEF TakenBy
      <3> QED
        BY <3>1
    <2>2. cuts' \in {cuts, [cuts EXCEPT ![m] = @ \cup {a}]}
      <3>1. \A n \in Messages :
              CutShortOf(n)' = IF n = m /\ broken THEN CutShortOf(n) \cup {a}
                                                  ELSE CutShortOf(n)
        BY <1>1, <1>6, <1>7, <1>9 DEF CutShortOf
      <3> QED
        BY <3>1
    <2>3. [n \in Messages |-> PhaseOf(status[n])]' = [n \in Messages |-> PhaseOf(status[n])]
      BY <1>6 DEF PhaseOf
    <2>4. Promise!Take(m, a)
      BY <1>3, <1>5, <2>1, <2>2, <2>3, FreeIsUntaken DEF Promise!Take
    <2> QED
      BY <2>4 DEF Promise!Next
  <1> QED
    BY <1>8, <1>9

LEMMA WorkerKeepsPromise ==
  ASSUME DeliveryInv, [Next]_vars, NEW w \in Workers, WorkerStep(w) \/ Abandon(w)
  PROVE  [Promise!Next]_(Promise!vars)
  <1> DEFINE m == Msg(w)
             a == worker[w].attempt
  <1>1. worker[w].pc # "idle" => m \in Messages
    BY DEF DeliveryInv, CallsAreOwned, Msg
  \* The attempt of a call, and no other, may have taken the message for certain.
  <1>2. InCall(w) => /\ a \in Attempts /\ attempts[a].msg = m
                     /\ TakenBy(m) \ CutShortOf(m) \subseteq {a}
    <2>1. InCall(w) => a \in Attempts /\ attempts[a].msg = m /\ Open(a)
      BY DEF DeliveryInv, CallsAreOwned, Open, Msg
    <2> QED
      BY <2>1 DEF DeliveryInv, TypeOK, TakenIsOpen, OpenAttemptBlocksDispatch, TakenBy,
                  CutShortOf
  <1>3. ASSUME NEW n \in Messages, BeginProcessing(w, n) PROVE UNCHANGED Promise!vars
    <2>1. Promise!Move(n, "waiting", "waiting")
      BY <1>3, StatusIsMove, PhaseTable DEF BeginProcessing, BeginProcessingFrom
    <2> QED
      BY <2>1, SamePhaseIsStutter
  <1>4. ASSUME NEW b \in Attempts, ReserveProviderAttempt(w, b) PROVE Promise!Next
    <2>1. m \in Messages /\ status[m] = "PROCESSING"
      BY <1>1, <1>4 DEF ReserveProviderAttempt
    <2>2. Promise!Free(m)
      BY <2>1, DispatchedIsFree, FreeIsUntaken DEF OutOfDispatch
    <2>3. Promise!Move(m, "waiting", "calling")
      BY <1>4, <2>1, StatusIsMove, PhaseTable DEF ReserveProviderAttempt
    <2>4. Promise!Call(m)
      BY <2>1, <2>2, <2>3 DEF Promise!Call
    <2> QED
      BY <2>1, <2>4 DEF Promise!Next
  <1>5. CASE FinalizeAccepted(w)
    <2>1. m \in Messages /\ status[m] = "AWAITING_PROVIDER_RESULT"
      BY <1>1, <1>5 DEF FinalizeAccepted, CanFinalize
    <2>2. TakenBy(m) # {}
      BY <1>2, <1>5 DEF FinalizeAccepted, InCall, DeliveryInv, TakenIsOpen, TakenBy
    <2>3. Promise!Move(m, "calling", "SENT")
      BY <1>5, <2>1, StatusIsMove, PhaseTable DEF FinalizeAccepted, Settled
    <2>4. Promise!Confirm(m)
      BY <2>1, <2>2, <2>3 DEF Promise!Confirm
    <2> QED
      BY <2>1, <2>4 DEF Promise!Next
  <1>6. CASE FinalizeFailed(w)
    <2>1. m \in Messages /\ status[m] = "AWAITING_PROVIDER_RESULT"
      BY <1>1, <1>6 DEF FinalizeFailed, CanFinalize
    <2>2. Promise!Free(m)
      <3>1. a \notin TakenBy(m) \ CutShortOf(m)
        BY <1>2, <1>6
        DEF FinalizeFailed, InCall, DeliveryInv, TakenIsOpen, TakenBy, CutShortOf
      <3> QED
        BY <1>2, <1>6, <2>1, <3>1, FreeIsUntaken DEF FinalizeFailed, InCall
    <2>3. Promise!Move(m, "calling", "waiting")
      BY <1>6, <2>1, StatusIsMove, PhaseTable DEF FinalizeFailed
    <2>4. Promise!Release(m)
      BY <2>1, <2>2, <2>3 DEF Promise!Release
    <2> QED
      BY <2>1, <2>4 DEF Promise!Next
  <1>7. CASE ScheduleRetry(w)
    <2>1. m \in Messages /\ Promise!Move(m, "waiting", "waiting")
      BY <1>1, <1>7, StatusIsMove, PhaseTable DEF ScheduleRetry
    <2> QED
      BY <2>1, SamePhaseIsStutter
  <1>8. CASE MarkFatalFailure(w)
    <2>1. m \in Messages /\ status[m] = "PROCESSING"
      BY <1>1, <1>8 DEF MarkFatalFailure
    <2>2. Promise!Free(m)
      BY <2>1, DispatchedIsFree, FreeIsUntaken DEF OutOfDispatch
    <2>3. Promise!Move(m, "waiting", "dead")
      BY <1>8, <2>1, StatusIsMove, PhaseTable DEF MarkFatalFailure
    <2>4. Promise!DeadLetter(m)
      BY <2>1, <2>2, <2>3 DEF Promise!DeadLetter
    <2> QED
      BY <2>1, <2>4 DEF Promise!Next
  <1>9. CASE \/ ReservationLost(w) \/ FinalizeAmbiguous(w) \/ FinalizeLost(w)
             \/ ValidateOutcome(w) \/ OutcomeInvalid(w) \/ OutcomeLost(w) \/ Abandon(w)
    BY <1>9, QuietIsStutter
    DEF ReservationLost, FinalizeAmbiguous, FinalizeLost, ValidateOutcome,
        OutcomeInvalid, OutcomeLost, Abandon
  <1> QED
    BY <1>3, <1>4, <1>5, <1>6, <1>7, <1>8, <1>9, CallIsTake DEF WorkerStep

LEMMA EnvironmentKeepsPromise ==
  ASSUME DeliveryInv, CorrelationInv, IdsAreSettled, [Next]_vars, EnvironmentStep
  PROVE  [Promise!Next]_(Promise!vars)
  <1>1. ASSUME NEW m \in Messages, CreateMessage(m) PROVE Promise!Next
    <2>1. Promise!Accept(m)
      BY <1>1, StatusIsMove, PhaseTable DEF CreateMessage, Promise!Accept
    <2> QED
      BY <2>1 DEF Promise!Next
  <1>2. ASSUME NEW m \in Messages, RecoverStaleProcessing(m) PROVE UNCHANGED Promise!vars
    <2>1. Promise!Move(m, "waiting", "waiting")
      BY <1>2, StatusIsMove, PhaseTable DEF RecoverStaleProcessing
    <2> QED
      BY <2>1, SamePhaseIsStutter
  <1>3. ASSUME NEW m \in Messages, ExpireAmbiguousOutcome(m) PROVE Promise!Next
    <2>1. Promise!GiveUp(m)
      BY <1>3, StatusIsMove, PhaseTable DEF ExpireAmbiguousOutcome, Promise!GiveUp, Settled
    <2> QED
      BY <2>1 DEF Promise!Next
  <1>4. ASSUME NEW m \in Messages, ResetForRequeue(m) PROVE Promise!Next
    <2>1. Promise!Free(m)
      BY <1>4, DispatchedIsFree, FreeIsUntaken DEF ResetForRequeue, OutOfDispatch
    <2>2. Promise!Move(m, "dead", "waiting")
      BY <1>4, StatusIsMove, PhaseTable DEF ResetForRequeue
    <2>3. Promise!Requeue(m)
      BY <2>1, <2>2 DEF Promise!Requeue
    <2> QED
      BY <2>3 DEF Promise!Next
  <1>5. ASSUME NEW a \in Attempts, NEW r \in ReportStatuses, ApplyDeliveryReport(a, r)
        PROVE Promise!Next
    <2>1. PICK m \in Messages : /\ providerMessageId[m] = a
                                /\ IsValidTransition(status[m], r)
                                /\ SetStatus(m, r)
      BY <1>5 DEF ApplyDeliveryReport
    <2>2. a # None
      BY NoneIsNothing
    <2>3. status[m] = "SENT"
      BY <2>1, <2>2 DEF IdsAreSettled, Settled, IsValidTransition, TransitionTable
    <2>4. a \in TakenBy(m)
      BY <2>1, <2>2 DEF CorrelationInv, TakenBy
    <2>5. UNCHANGED <<accepted, cutShort>>
      BY <1>5 DEF ApplyDeliveryReport
    <2>6. Promise!Move(m, "SENT", r)
      BY <2>1, <2>3, <2>5, StatusIsMove, PhaseTable DEF Settled, ReportStatuses
    <2>7. Promise!Report(m)
      BY <2>4, <2>6 DEF Promise!Report, ReportStatuses
    <2> QED
      BY <2>7 DEF Promise!Next
  <1>6. ASSUME NEW o \in Operators, ResolveTwilioAttempt(o) PROVE Promise!Next
    <2>1. PICK m \in Messages, a \in Attempts, r \in Resolutions :
            operator[o] = [msg |-> m, attempt |-> a, resolution |-> r]
      BY <1>6 DEF ResolveTwilioAttempt, DeliveryInv, TypeOK, ResolutionRequests
    <2>2. /\ status[m] = "AWAITING_PROVIDER_RESULT"
          /\ SetStatus(m, IF r = "KNOWN_SID" THEN "SENT" ELSE "UNDELIVERED")
          /\ UNCHANGED <<accepted, cutShort>>
      BY <1>6, <2>1 DEF ResolveTwilioAttempt
    <2>3. CASE r = "KNOWN_SID"
      <3>1. a \in TakenBy(m)
        BY <1>6, <2>1, <2>3 DEF CorrelationInv, ResolveTwilioAttempt, TakenBy
      <3>2. Promise!Move(m, "calling", "SENT")
        BY <2>2, <2>3, StatusIsMove, PhaseTable DEF Settled
      <3>3. Promise!Confirm(m)
        BY <3>1, <3>2 DEF Promise!Confirm
      <3> QED
        BY <3>3 DEF Promise!Next
    <2>4. CASE r # "KNOWN_SID"
      <3>1. Promise!GiveUp(m)
        BY <2>2, <2>4, StatusIsMove, PhaseTable DEF Promise!GiveUp, Settled
      <3> QED
        BY <3>1 DEF Promise!Next
    <2> QED
      BY <2>3, <2>4
  <1>7. ASSUME NEW o \in Operators,
               ResolutionLost(o) \/ \E m \in Messages, a \in Attempts, r \in Resolutions :
                                     ValidateResolution(o, m, a, r)
        PROVE UNCHANGED Promise!vars
    BY <1>7, QuietIsStutter DEF ResolutionLost, ValidateResolution
  <1> QED
    BY <1>1, <1>2, <1>3, <1>4, <1>5, <1>6, <1>7, EnvironmentActs
    DEF MessageStep, OperatorStep

\* Whatever workers, sweeps, callbacks, requeues and operators do to each other,
\* a caller sees SmsPromise: a message is offered, dead-lettered or requeued only
\* while no provider took it, unless with a response that broke off; it is taken for
\* certain at most once, and confirmed or reported on only after it was taken.
THEOREM DispatchKeepsPromise == Spec => KeepsPromise
  <1>1. Init => Promise!Init
    <2> SUFFICES ASSUME Init PROVE Promise!Init
      OBVIOUS
    <2>1. \A m \in Messages :
            PhaseOf(status[m]) = "unknown" /\ TakenBy(m) = {} /\ CutShortOf(m) = {}
      BY PhaseTable DEF Init, TakenBy, CutShortOf
    <2> QED
      BY <2>1 DEF Promise!Init
  <1>2. Init => CorrelationInv /\ IdsAreSettled
    BY NoneIsNothing DEF Init, CorrelationInv, IdsAreSettled, NoMessage
  <1>3. DeliveryInv /\ CorrelationInv /\ IdsAreSettled /\ [Next]_vars
          => [Promise!Next]_(Promise!vars)
    <2>1. DeliveryInv /\ UNCHANGED vars => UNCHANGED Promise!vars
      BY QuietIsStutter DEF vars
    <2> QED
      BY <2>1, WorkerKeepsPromise, EnvironmentKeepsPromise DEF Next
  <1> QED
    BY <1>1, <1>2, <1>3, IdsStep, CorrelationStep, DeliveryInvariant, PTL
    DEF Spec, KeepsPromise, Promise!Spec

-----------------------------------------------------------------------------
(* The rounds.                                                              *)

LEMMA GrantersAreFew ==
  ASSUME NEW m \in Messages
  PROVE  /\ IsFiniteSet(Granters(m))
         /\ Cardinality(Granters(m)) \in Nat
         /\ Cardinality(Granters(m)) <= Cardinality(Workers)
         /\ Cardinality(Workers) \in Nat
  <1>1. Granters(m) \subseteq Workers
    BY DEF Granters
  <1> QED
    BY <1>1, WorkersAssumption, FS_Subset, FS_CardinalityType

\* Fewer granters and the same count, or a count below the limit, are harmless.
LEMMA FewerGranters ==
  ASSUME RoundsInv, NEW m \in Messages, retryRounds[m] \in Nat,
         retryRounds'[m] = retryRounds[m], Granters(m)' \subseteq Granters(m)
  PROVE  retryRounds'[m] >= MaxRetryRounds =>
           retryRounds'[m] + Cardinality(Granters(m)')
             <= (MaxRetryRounds + Cardinality(Workers)) - 1
  <1>1. /\ Cardinality(Granters(m)') \in Nat
        /\ Cardinality(Granters(m)') <= Cardinality(Granters(m))
    BY GrantersAreFew, FS_Subset, FS_CardinalityType
  <1> QED
    BY <1>1, GrantersAreFew, ConstantsAssumption DEF RoundsInv

LEMMA RoundsStep ==
  ASSUME DeliveryInv, RoundsInv, [Next]_vars
  PROVE  RoundsInv'
  <1> DEFINE Within(m) ==
        retryRounds'[m] >= MaxRetryRounds =>
          retryRounds'[m] + Cardinality(Granters(m)')
            <= (MaxRetryRounds + Cardinality(Workers)) - 1
  <1> SUFFICES ASSUME NEW m \in Messages PROVE Within(m)
    BY DEF RoundsInv
  <1>0. retryRounds[m] \in Nat /\ MaxRetryRounds \in Nat \ {0}
    BY ConstantsAssumption DEF DeliveryInv, TypeOK
  <1>1. CASE UNCHANGED <<retryRounds, worker>>
    BY <1>0, <1>1, FewerGranters DEF Granters
  \* A job that ends, or goes on with its message and its round.
  <1>2. ASSUME NEW w \in Workers, NEW r, worker' = [worker EXCEPT ![w] = r],
               \/ r.pc = "idle"
               \/ r.msg = worker[w].msg /\ r.round = worker[w].round /\ worker[w].pc # "idle"
        PROVE  Granters(m)' \subseteq Granters(m)
    BY <1>2 DEF Granters, DeliveryInv, TypeOK
  <1>3. ASSUME NEW w \in Workers, NEW n \in Messages, BeginProcessing(w, n)
        PROVE  Within(m)
    <2>1. CASE retryRounds[m] < MaxRetryRounds
      BY <1>0, <1>3, <2>1 DEF BeginProcessing
    <2>2. CASE retryRounds[m] >= MaxRetryRounds
      <3>1. Granters(m)' \subseteq Granters(m)
        BY <1>0, <1>3, <2>2 DEF BeginProcessing, Granters, Idle, DeliveryInv, TypeOK
      <3> QED
        BY <1>0, <1>3, <3>1, FewerGranters DEF BeginProcessing
    <2> QED
      BY <1>0, <2>1, <2>2
  <1>4. ASSUME NEW w \in Workers, ScheduleRetry(w) PROVE Within(m)
    <2>1. /\ worker[w].pc = "commit" /\ worker[w].round < MaxRetryRounds
          /\ retryRounds' = [retryRounds EXCEPT ![Msg(w)] = @ + 1]
          /\ worker' = [worker EXCEPT ![w] = Idle]
      BY <1>4 DEF ScheduleRetry, PassOutcome, Return
    <2>2. CASE m # Msg(w)
      <3>1. Granters(m)' \subseteq Granters(m)
        BY <1>2, <2>1 DEF Idle
      <3> QED
        BY <1>0, <2>1, <2>2, <3>1, FewerGranters DEF DeliveryInv, TypeOK
    <2>3. CASE m = Msg(w)
      <3>1. /\ w \in Granters(m)
            /\ Granters(m)' = Granters(m) \ {w}
        BY <2>1, <2>3 DEF Granters, Msg, Idle, DeliveryInv, TypeOK
      <3>2. Cardinality(Granters(m)') = Cardinality(Granters(m)) - 1
        BY <3>1, GrantersAreFew, FS_RemoveElement
      <3>3. retryRounds'[m] = retryRounds[m] + 1
        BY <2>1, <2>3 DEF DeliveryInv, TypeOK
      <3> QED
        BY <1>0, <3>2, <3>3, GrantersAreFew DEF RoundsInv
    <2> QED
      BY <2>2, <2>3
  <1>5. ASSUME NEW w \in Workers, WorkerStep(w) \/ Abandon(w) PROVE Within(m)
    <2>1. CASE \/ \E a \in Attempts : ReserveProviderAttempt(w, a)
               \/ CallProvider(w) \/ FinalizeFailed(w) \/ ValidateOutcome(w)
      <3>1. worker[w] \in WorkerStates
        BY DEF DeliveryInv, TypeOK
      <3> DEFINE Goes == /\ UNCHANGED retryRounds
                         /\ worker[w].pc # "idle"
                         /\ worker' = [worker EXCEPT ![w] = worker'[w]]
                         /\ worker'[w].msg = worker[w].msg
                         /\ worker'[w].round = worker[w].round
      <3>4. ASSUME NEW a \in Attempts, ReserveProviderAttempt(w, a) PROVE Goes
        BY <3>1, <3>4 DEF ReserveProviderAttempt, WorkerStates, DeliveryInv, TypeOK
      <3>5. ASSUME CallProvider(w) PROVE Goes
        <4>1. PICK x \in Results :
                worker' = [worker EXCEPT ![w].pc = "called", ![w].result = x]
          BY <3>5, CallOutcome DEF DeliveryInv
        <4> QED
          BY <3>1, <3>5, <4>1 DEF CallProvider, WorkerStates, DeliveryInv, TypeOK
      <3>6. ASSUME FinalizeFailed(w) PROVE Goes
        BY <3>1, <3>6 DEF FinalizeFailed, WorkerStates, DeliveryInv, TypeOK
      <3>7. ASSUME ValidateOutcome(w) PROVE Goes
        BY <3>1, <3>7 DEF ValidateOutcome, PassOver, WorkerStates, DeliveryInv, TypeOK
      <3>2. Goes
        BY <2>1, <3>4, <3>5, <3>6, <3>7
      <3>3. Granters(m)' \subseteq Granters(m)
        BY <1>2, <3>2
      <3> QED
        BY <1>0, <3>2, <3>3, FewerGranters
    <2>2. CASE \/ ReservationLost(w) \/ FinalizeAccepted(w) \/ FinalizeAmbiguous(w)
               \/ FinalizeLost(w) \/ OutcomeInvalid(w) \/ MarkFatalFailure(w)
               \/ OutcomeLost(w) \/ Abandon(w)
      <3>1. UNCHANGED retryRounds /\ worker' = [worker EXCEPT ![w] = Idle]
        BY <2>2
        DEF ReservationLost, FinalizeAccepted, FinalizeAmbiguous, FinalizeLost,
            OutcomeInvalid, MarkFatalFailure, OutcomeLost, Abandon, Return
      <3>2. Granters(m)' \subseteq Granters(m)
        BY <1>2, <3>1 DEF Idle
      <3> QED
        BY <1>0, <3>1, <3>2, FewerGranters
    <2> QED
      BY <1>3, <1>4, <1>5, <2>1, <2>2 DEF WorkerStep
  <1>6. ASSUME NEW n \in Messages, ResetForRequeue(n) PROVE Within(m)
    <2>1. CASE m = n
      BY <1>0, <1>6, <2>1 DEF ResetForRequeue, DeliveryInv, TypeOK
    <2>2. CASE m # n
      <3>1. retryRounds'[m] = retryRounds[m] /\ Granters(m)' \subseteq Granters(m)
        BY <1>6, <2>2 DEF ResetForRequeue, Granters, DeliveryInv, TypeOK
      <3> QED
        BY <1>0, <3>1, FewerGranters
    <2> QED
      BY <2>1, <2>2
  <1>7. CASE EnvironmentStep
    BY <1>1, <1>6, <1>7, EnvironmentActs
    DEF MessageStep, CreateMessage, RecoverStaleProcessing, ExpireAmbiguousOutcome,
        ApplyDeliveryReport, OperatorStep, ValidateResolution, ResolveTwilioAttempt,
        ResolutionLost
  <1> QED
    BY <1>1, <1>5, <1>7 DEF Next, vars

\* However many jobs of a message are stalled and resumed, they grant it no more
\* rounds than the limit and one for every other worker.
THEOREM RetryRoundsAreBounded == Spec => []RetryRoundsBounded
  <1>1. Init => RoundsInv
    BY ConstantsAssumption DEF Init, RoundsInv
  <1>2. DeliveryInv /\ RoundsInv => RetryRoundsBounded
    <2> SUFFICES ASSUME DeliveryInv, RoundsInv, NEW m \in Messages
                 PROVE  retryRounds[m] <= (MaxRetryRounds + Cardinality(Workers)) - 1
      BY DEF RetryRoundsBounded
    <2>1. retryRounds[m] \in Nat
      BY DEF DeliveryInv, TypeOK
    <2> QED
      BY <2>1, GrantersAreFew, ConstantsAssumption DEF RoundsInv
  <1> QED
    BY <1>1, <1>2, RoundsStep, DeliveryInvariant, PTL DEF Spec

=============================================================================
