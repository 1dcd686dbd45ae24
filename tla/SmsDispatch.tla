----------------------------- MODULE SmsDispatch -----------------------------
(***************************************************************************)
(* The dispatch of SMS messages: the worker (modules/queue/sms.processor)  *)
(* and every operation of the repository that changes a message's status   *)
(* (database/sms-lifecycle.repository), with the actors that race on it:   *)
(* several workers, the recovery sweep, the expiry job, delivery webhooks, *)
(* the requeue endpoint and operators resolving an ambiguous attempt.      *)
(*                                                                         *)
(* Grain.  One action is one statement that other actors can observe: a    *)
(* transaction whose only decision is its conditional UPDATE is one step;  *)
(* a transaction that reads, decides and then updates (guardedTransition,  *)
(* resolveTwilioAttempt) is two, since PostgreSQL runs at READ COMMITTED.  *)
(*                                                                         *)
(* Jobs.  A committed outbox event may be delivered any number of times    *)
(* and at any later time: the relay adds the job again whenever marking    *)
(* the event published failed, and BullMQ re-runs a stalled job.           *)
(*                                                                         *)
(* Time is abstract: a row that is PROCESSING may always have become older *)
(* than the recovery cutoff, and an expiry job may always be due.          *)
(***************************************************************************)
EXTENDS Naturals, Sequences, FiniteSets, SmsStateMachine, ProviderOutcomes

CONSTANTS
  Messages,         \* message rows
  Workers,          \* concurrent executions of SmsProcessor.process
  Operators,        \* callers of resolveTwilioAttempt
  Attempts,         \* ids of provider attempts; a provider's message id is
                    \* the id of the attempt it was returned for
  ProviderOrder,    \* the configured providers in priority order
  MaxRetryRounds,   \* PROVIDER_MAX_RETRY_ROUNDS
  MaxCutShort,      \* bound: the calls that a provider takes although its
                    \* response breaks off after the status
  None              \* SQL NULL, or "no such thing yet"

ASSUME ConstantsAssumption ==
  /\ ProviderOrder \in Seq(RegisteredProviders)
  /\ MaxRetryRounds \in Nat \ {0}
  /\ MaxCutShort \in Nat

ASSUME WorkersAssumption == IsFiniteSet(Workers)

VARIABLES
  status,             \* sms_messages.status, or NoMessage
  retryRounds,        \* sms_messages.retryRounds
  providerMessageId,  \* sms_messages.providerMessageId
  outbox,             \* per message, the kinds of job its outbox events ask for
  attempts,           \* sms_attempts
  resolutions,        \* sms_attempt_resolutions, unique per attempt
  worker,             \* where each dispatch job execution stands
  operator,           \* a resolution that was validated and not yet written
  accepted,           \* attempts the provider really took (the outside world)
  cutShort            \* those of them whose response broke off after its status

vars == <<status, retryRounds, providerMessageId, outbox, attempts,
          resolutions, worker, operator, accepted, cutShort>>

NumProviders == Len(ProviderOrder)

-----------------------------------------------------------------------------
(* The shape of the state.                                                  *)

JobKinds == {"dispatch", "dead-letter", "expiry"}

AttemptRows == [msg : Messages, provider : RegisteredProviders,
                outcome : {"RESERVED", "ACCEPTED", "FAILED"},
                isAmbiguous : BOOLEAN]

WorkerStates ==
  [pc : {"idle", "pass", "reserved", "called", "commit"},
   msg : Messages \cup {None},
   round : Nat,               \* begin.message.retryRounds, read once
   next : Nat \ {0},          \* index of the provider to try next
   allRetryable : BOOLEAN,    \* every failure of this pass was retryable
   attempt : Attempts \cup {None},
   result : Results \cup {None}]

Idle == [pc |-> "idle", msg |-> None, round |-> 0, next |-> 1,
         allRetryable |-> TRUE, attempt |-> None, result |-> None]

Resolutions == {"KNOWN_SID", "UNDELIVERED"}

ResolutionRequests == [msg : Messages, attempt : Attempts, resolution : Resolutions]

ASSUME NoneIsNothing ==
  None \notin Messages \cup Attempts \cup AttemptRows \cup Results
             \cup Resolutions \cup ResolutionRequests

\* deliveryAttempts, selectedProvider and lastError are written and never read
\* by any decision, so they are left out.
TypeOK ==
  /\ status \in [Messages -> Statuses \cup {NoMessage}]
  /\ retryRounds \in [Messages -> Nat]
  /\ providerMessageId \in [Messages -> Attempts \cup {None}]
  /\ outbox \in [Messages -> SUBSET JobKinds]
  /\ attempts \in [Attempts -> AttemptRows \cup {None}]
  /\ resolutions \in [Attempts -> Resolutions \cup {None}]
  /\ worker \in [Workers -> WorkerStates]
  /\ operator \in [Operators -> ResolutionRequests \cup {None}]
  /\ accepted \subseteq Attempts
  /\ cutShort \subseteq accepted

Init ==
  /\ status = [m \in Messages |-> NoMessage]
  /\ retryRounds = [m \in Messages |-> 0]
  /\ providerMessageId = [m \in Messages |-> None]
  /\ outbox = [m \in Messages |-> {}]
  /\ attempts = [a \in Attempts |-> None]
  /\ resolutions = [a \in Attempts |-> None]
  /\ worker = [w \in Workers |-> Idle]
  /\ operator = [o \in Operators |-> None]
  /\ accepted = {}
  /\ cutShort = {}

-----------------------------------------------------------------------------
(* Updates shared by the operations.                                        *)

SetStatus(m, s) == status' = [status EXCEPT ![m] = s]

\* An outbox event committed together with the row it is about.
Emit(m, kind) == outbox' = [outbox EXCEPT ![m] = @ \cup {kind}]

\* The job ends, with a result or an error; the worker takes its next one.
Return(w) == worker' = [worker EXCEPT ![w] = Idle]

Msg(w) == worker[w].msg

-----------------------------------------------------------------------------
(* Acceptance: the row, its outbox event and its key in one transaction.     *)

CreateMessage(m) ==
  /\ status[m] = NoMessage
  /\ SetStatus(m, "QUEUED")
  /\ Emit(m, "dispatch")
  /\ UNCHANGED <<retryRounds, providerMessageId, attempts, resolutions,
                 worker, operator, accepted, cutShort>>

-----------------------------------------------------------------------------
(* The dispatch worker.                                                     *)

\* A message that is not startable leaves no trace: the job returns `skipped`.
BeginProcessing(w, m) ==
  /\ worker[w].pc = "idle"
  /\ "dispatch" \in outbox[m]
  /\ status[m] \in BeginProcessingFrom
  /\ SetStatus(m, "PROCESSING")
  /\ worker' = [worker EXCEPT ![w] =
                  [Idle EXCEPT !.pc = "pass", !.msg = m, !.round = retryRounds[m]]]
  /\ UNCHANGED <<retryRounds, providerMessageId, outbox, attempts,
                 resolutions, operator, accepted, cutShort>>

ProvidersLeft(w) == worker[w].next <= NumProviders

ReserveProviderAttempt(w, a) ==
  /\ worker[w].pc = "pass"
  /\ ProvidersLeft(w)
  /\ status[Msg(w)] = "PROCESSING"
  /\ attempts[a] = None
  /\ SetStatus(Msg(w), "AWAITING_PROVIDER_RESULT")
  /\ attempts' = [attempts EXCEPT ![a] =
                    [msg |-> Msg(w), provider |-> ProviderOrder[worker[w].next],
                     outcome |-> "RESERVED", isAmbiguous |-> TRUE]]
  /\ worker' = [worker EXCEPT ![w].pc = "reserved", ![w].attempt = a]
  /\ UNCHANGED <<retryRounds, providerMessageId, outbox, resolutions,
                 operator, accepted, cutShort>>

\* not_reservable: another actor moved the message on; the job is acked.
ReservationLost(w) ==
  /\ worker[w].pc = "pass"
  /\ ProvidersLeft(w)
  /\ status[Msg(w)] # "PROCESSING"
  /\ Return(w)
  /\ UNCHANGED <<status, retryRounds, providerMessageId, outbox, attempts,
                 resolutions, operator, accepted, cutShort>>

\* A call ends.  `cutShort` is history: only the bound reads it.
EndCall(w, answer, taken) ==
  LET took == {a \in {worker[w].attempt} : taken} IN
  /\ taken /\ IsCutShort(answer) => Cardinality(cutShort) < MaxCutShort
  /\ worker' = [worker EXCEPT ![w].pc = "called", ![w].result = Classify(answer)]
  /\ accepted' = accepted \cup took
  /\ cutShort' = IF IsCutShort(answer) THEN cutShort \cup took ELSE cutShort

\* The call itself: the provider takes the message or not, and the client
\* returns or throws something that need not tell which.
CallProvider(w) ==
  /\ worker[w].pc = "reserved"
  /\ \E answer \in AnswersOf(attempts[worker[w].attempt].provider), taken \in BOOLEAN :
       /\ HasTaken(answer) => taken
       /\ HasRefused(answer) => ~taken
       /\ EndCall(w, answer, taken)
  /\ UNCHANGED <<status, retryRounds, providerMessageId, outbox, attempts,
                 resolutions, operator>>

\* Mutant: the message's status is not looked at.
CanFinalize_attemptOnly(w) == attempts[worker[w].attempt].outcome = "RESERVED"

\* finalizeProviderAttempt updates only a RESERVED attempt, and moves the
\* message only out of AWAITING_PROVIDER_RESULT; an ambiguous outcome leaves
\* the message alone and does not look at its status.
CanFinalize(w) ==
  /\ attempts[worker[w].attempt].outcome = "RESERVED"
  /\ \/ worker[w].result = "ambiguous"
     \/ status[Msg(w)] = "AWAITING_PROVIDER_RESULT"

FinalizeAttempt(w, outcome, ambiguous) ==
  attempts' = [attempts EXCEPT ![worker[w].attempt].outcome = outcome,
                               ![worker[w].attempt].isAmbiguous = ambiguous]

FinalizeAccepted(w) ==
  /\ worker[w].pc = "called"
  /\ worker[w].result = "accepted"
  /\ CanFinalize(w)
  /\ FinalizeAttempt(w, "ACCEPTED", FALSE)
  /\ SetStatus(Msg(w), "SENT")
  /\ providerMessageId' = [providerMessageId EXCEPT ![Msg(w)] = worker[w].attempt]
  /\ Return(w)
  /\ UNCHANGED <<retryRounds, outbox, resolutions, operator, accepted, cutShort>>

FinalizeAmbiguous(w) ==
  /\ worker[w].pc = "called"
  /\ worker[w].result = "ambiguous"
  /\ CanFinalize(w)
  /\ FinalizeAttempt(w, "FAILED", TRUE)
  /\ Emit(Msg(w), "expiry")
  /\ Return(w)
  /\ UNCHANGED <<status, retryRounds, providerMessageId, resolutions,
                 operator, accepted, cutShort>>

\* A definitive failure releases the reservation; the pass goes on.
FinalizeFailed(w) ==
  /\ worker[w].pc = "called"
  /\ worker[w].result \in {"retryable", "permanent"}
  /\ CanFinalize(w)
  /\ FinalizeAttempt(w, "FAILED", FALSE)
  /\ SetStatus(Msg(w), "PROCESSING")
  /\ worker' = [worker EXCEPT ![w] =
                  [worker[w] EXCEPT
                     !.pc = "pass", !.next = worker[w].next + 1,
                     !.allRetryable = worker[w].allRetryable
                                      /\ worker[w].result = "retryable",
                     !.attempt = None, !.result = None]]
  /\ UNCHANGED <<retryRounds, providerMessageId, outbox, resolutions,
                 operator, accepted, cutShort>>

\* SmsConcurrentModificationError: the transaction rolls back, the job fails.
FinalizeLost(w) ==
  /\ worker[w].pc = "called"
  /\ ~CanFinalize(w)
  /\ Return(w)
  /\ UNCHANGED <<status, retryRounds, providerMessageId, outbox, attempts,
                 resolutions, operator, accepted, cutShort>>

\* Mutant: one round too many.
PassOutcome_roundsInclusive(w) ==
  IF /\ NumProviders > 0
     /\ worker[w].allRetryable
     /\ worker[w].round <= MaxRetryRounds
  THEN "RETRY_SCHEDULED" ELSE "FATAL_FAILURE"

\* After the pass: another round, decided on the round count that
\* beginProcessing returned, or the dead letter.
PassOutcome(w) ==
  IF /\ NumProviders > 0
     /\ worker[w].allRetryable
     /\ worker[w].round < MaxRetryRounds
  THEN "RETRY_SCHEDULED" ELSE "FATAL_FAILURE"

PassOver(w) == worker[w].pc = "pass" /\ ~ProvidersLeft(w)

\* guardedTransition, first statement: read the status and validate.
ValidateOutcome(w) ==
  /\ PassOver(w)
  /\ IsValidTransition(status[Msg(w)], PassOutcome(w))
  /\ worker' = [worker EXCEPT ![w].pc = "commit"]
  /\ UNCHANGED <<status, retryRounds, providerMessageId, outbox, attempts,
                 resolutions, operator, accepted, cutShort>>

\* InvalidStateTransitionError, which guardConcurrency does not catch.
OutcomeInvalid(w) ==
  /\ PassOver(w)
  /\ ~IsValidTransition(status[Msg(w)], PassOutcome(w))
  /\ Return(w)
  /\ UNCHANGED <<status, retryRounds, providerMessageId, outbox, attempts,
                 resolutions, operator, accepted, cutShort>>

\* Mutant: the round count is decremented.
ScheduleRetry_countsDown(w) ==
  /\ worker[w].pc = "commit"
  /\ PassOutcome(w) = "RETRY_SCHEDULED"
  /\ status[Msg(w)] = "PROCESSING"
  /\ SetStatus(Msg(w), "RETRY_SCHEDULED")
  /\ retryRounds' = [retryRounds EXCEPT ![Msg(w)] = @ - 1]
  /\ Emit(Msg(w), "dispatch")
  /\ Return(w)
  /\ UNCHANGED <<providerMessageId, attempts, resolutions, operator, accepted, cutShort>>

\* guardedTransition, second statement: the update conditional on the status
\* read before.  Both outcomes are valid from PROCESSING alone, so that is the
\* status it read.
ScheduleRetry(w) ==
  /\ worker[w].pc = "commit"
  /\ PassOutcome(w) = "RETRY_SCHEDULED"
  /\ status[Msg(w)] = "PROCESSING"
  /\ SetStatus(Msg(w), "RETRY_SCHEDULED")
  /\ retryRounds' = [retryRounds EXCEPT ![Msg(w)] = @ + 1]
  /\ Emit(Msg(w), "dispatch")
  /\ Return(w)
  /\ UNCHANGED <<providerMessageId, attempts, resolutions, operator, accepted, cutShort>>

MarkFatalFailure(w) ==
  /\ worker[w].pc = "commit"
  /\ PassOutcome(w) = "FATAL_FAILURE"
  /\ status[Msg(w)] = "PROCESSING"
  /\ SetStatus(Msg(w), "FATAL_FAILURE")
  /\ Emit(Msg(w), "dead-letter")
  /\ Return(w)
  /\ UNCHANGED <<retryRounds, providerMessageId, attempts, resolutions,
                 operator, accepted, cutShort>>

\* SmsConcurrentModificationError, acked by guardConcurrency.
OutcomeLost(w) ==
  /\ worker[w].pc = "commit"
  /\ status[Msg(w)] # "PROCESSING"
  /\ Return(w)
  /\ UNCHANGED <<status, retryRounds, providerMessageId, outbox, attempts,
                 resolutions, operator, accepted, cutShort>>

\* The job dies where it stands: the process crashes, a statement or the rate
\* limiter throws, the body cannot be decrypted.
Abandon(w) ==
  /\ worker[w].pc # "idle"
  /\ Return(w)
  /\ UNCHANGED <<status, retryRounds, providerMessageId, outbox, attempts,
                 resolutions, operator, accepted, cutShort>>

-----------------------------------------------------------------------------
(* The other actors.                                                        *)

\* Mutant: the sweep also takes messages with an outstanding reservation.
RecoverStaleProcessing_awaitingToo(m) ==
  /\ status[m] \in {"PROCESSING", "AWAITING_PROVIDER_RESULT"}
  /\ SetStatus(m, "RETRY_SCHEDULED")
  /\ Emit(m, "dispatch")
  /\ UNCHANGED <<retryRounds, providerMessageId, attempts, resolutions,
                 worker, operator, accepted, cutShort>>

\* One candidate of the sweep.  The guarded update repeats the selection's
\* predicates, so the selection decides nothing.
RecoverStaleProcessing(m) ==
  /\ status[m] = "PROCESSING"
  /\ SetStatus(m, "RETRY_SCHEDULED")
  /\ Emit(m, "dispatch")
  /\ UNCHANGED <<retryRounds, providerMessageId, attempts, resolutions,
                 worker, operator, accepted, cutShort>>

\* Mutant: the update is not conditional on the status.
ExpireAmbiguousOutcome_unguarded(m) ==
  /\ "expiry" \in outbox[m]
  /\ SetStatus(m, "UNDELIVERED")
  /\ UNCHANGED <<retryRounds, providerMessageId, outbox, attempts, resolutions,
                 worker, operator, accepted, cutShort>>

\* The conditional update is the whole guard; the job may be late or repeated.
ExpireAmbiguousOutcome(m) ==
  /\ "expiry" \in outbox[m]
  /\ status[m] = "AWAITING_PROVIDER_RESULT"
  /\ SetStatus(m, "UNDELIVERED")
  /\ UNCHANGED <<retryRounds, providerMessageId, outbox, attempts, resolutions,
                 worker, operator, accepted, cutShort>>

ResetForRequeue(m) ==
  /\ status[m] = "FATAL_FAILURE"
  /\ SetStatus(m, "RETRY_SCHEDULED")
  /\ retryRounds' = [retryRounds EXCEPT ![m] = 0]
  /\ Emit(m, "dispatch")
  /\ UNCHANGED <<providerMessageId, attempts, resolutions, worker, operator,
                 accepted, cutShort>>

\* A provider reports on a message it took; the row is looked up by the
\* provider's id alone.  An unknown id, a repeat and an invalid transition
\* are answered and change nothing.
ReportStatuses == {"DELIVERED", "UNDELIVERED", "REJECTED"}

ApplyDeliveryReport(a, report) ==
  /\ a \in accepted
  /\ \E m \in Messages :
       /\ providerMessageId[m] = a
       /\ IsValidTransition(status[m], report)
       /\ SetStatus(m, report)
  /\ UNCHANGED <<retryRounds, providerMessageId, outbox, attempts, resolutions,
                 worker, operator, accepted, cutShort>>

\* The terminal status a provider's own status stands for.  Any other status
\* is acknowledged and ignored.
TwilioStatusMap == [delivered |-> "DELIVERED", undelivered |-> "UNDELIVERED",
                    failed |-> "REJECTED"]

BirdStatusMap == [delivered |-> "DELIVERED", delivery_failed |-> "UNDELIVERED",
                  failed |-> "UNDELIVERED", undelivered |-> "UNDELIVERED",
                  rejected |-> "REJECTED"]

\* The two routes.  A callback is genuine: the provider of the attempt sends it.
TwilioCallback(a) ==
  /\ attempts[a].provider = "twilio"
  /\ \E raw \in DOMAIN TwilioStatusMap : ApplyDeliveryReport(a, TwilioStatusMap[raw])

BirdCallback(a) ==
  /\ attempts[a].provider = "bird"
  /\ \E raw \in DOMAIN BirdStatusMap : ApplyDeliveryReport(a, BirdStatusMap[raw])

RecordDeliveryReport(a) ==
  /\ a \in accepted
  /\ TwilioCallback(a) \/ BirdCallback(a)

\* resolveTwilioAttempt, the reads and checks.  The operator is honest: a SID
\* is quoted only for an attempt Twilio took.
ValidateResolution(o, m, a, resolution) ==
  /\ operator[o] = None
  /\ resolutions[a] = None
  /\ status[m] = "AWAITING_PROVIDER_RESULT"
  /\ attempts[a] # None
  /\ attempts[a].msg = m
  /\ attempts[a].provider = "twilio"
  /\ attempts[a].isAmbiguous
  /\ resolution = "KNOWN_SID" => a \in accepted
  /\ operator' = [operator EXCEPT ![o] =
                    [msg |-> m, attempt |-> a, resolution |-> resolution]]
  /\ UNCHANGED <<status, retryRounds, providerMessageId, outbox, attempts,
                 resolutions, worker, accepted, cutShort>>

\* Mutant: the update is not conditional on the status.
ResolveTwilioAttempt_unguarded(o) ==
  LET r == operator[o] IN
  /\ r # None
  /\ SetStatus(r.msg, IF r.resolution = "KNOWN_SID" THEN "SENT"
                                                    ELSE "UNDELIVERED")
  /\ providerMessageId' = IF r.resolution = "KNOWN_SID"
                          THEN [providerMessageId EXCEPT ![r.msg] = r.attempt]
                          ELSE providerMessageId
  /\ resolutions' = [resolutions EXCEPT ![r.attempt] = r.resolution]
  /\ operator' = [operator EXCEPT ![o] = None]
  /\ UNCHANGED <<retryRounds, outbox, attempts, worker, accepted, cutShort>>

\* Mutant: the SID is kept in the audit row only.
ResolveTwilioAttempt_forgetsSid(o) ==
  LET r == operator[o] IN
  /\ r # None
  /\ status[r.msg] = "AWAITING_PROVIDER_RESULT"
  /\ SetStatus(r.msg, IF r.resolution = "KNOWN_SID" THEN "SENT"
                                                    ELSE "UNDELIVERED")
  /\ resolutions' = [resolutions EXCEPT ![r.attempt] = r.resolution]
  /\ operator' = [operator EXCEPT ![o] = None]
  /\ UNCHANGED <<retryRounds, providerMessageId, outbox, attempts, worker, accepted, cutShort>>

\* resolveTwilioAttempt, the conditional update and the audit row.
ResolveTwilioAttempt(o) ==
  LET r == operator[o] IN
  /\ r # None
  /\ status[r.msg] = "AWAITING_PROVIDER_RESULT"
  /\ SetStatus(r.msg, IF r.resolution = "KNOWN_SID" THEN "SENT"
                                                    ELSE "UNDELIVERED")
  /\ providerMessageId' = IF r.resolution = "KNOWN_SID"
                          THEN [providerMessageId EXCEPT ![r.msg] = r.attempt]
                          ELSE providerMessageId
  /\ resolutions' = [resolutions EXCEPT ![r.attempt] = r.resolution]
  /\ operator' = [operator EXCEPT ![o] = None]
  /\ UNCHANGED <<retryRounds, outbox, attempts, worker, accepted, cutShort>>

\* The update found no row: already_resolved or conflict.
ResolutionLost(o) ==
  /\ operator[o] # None
  /\ status[operator[o].msg] # "AWAITING_PROVIDER_RESULT"
  /\ operator' = [operator EXCEPT ![o] = None]
  /\ UNCHANGED <<status, retryRounds, providerMessageId, outbox, attempts,
                 resolutions, worker, accepted, cutShort>>

-----------------------------------------------------------------------------

WorkerStep(w) ==
  \/ \E m \in Messages : BeginProcessing(w, m)
  \/ \E a \in Attempts : ReserveProviderAttempt(w, a)
  \/ ReservationLost(w)
  \/ CallProvider(w)
  \/ FinalizeAccepted(w)
  \/ FinalizeAmbiguous(w)
  \/ FinalizeFailed(w)
  \/ FinalizeLost(w)
  \/ ValidateOutcome(w)
  \/ OutcomeInvalid(w)
  \/ ScheduleRetry(w)
  \/ MarkFatalFailure(w)
  \/ OutcomeLost(w)

OperatorStep(o) ==
  \/ \E m \in Messages, a \in Attempts, r \in Resolutions :
       ValidateResolution(o, m, a, r)
  \/ ResolveTwilioAttempt(o)
  \/ ResolutionLost(o)

MessageStep(m) ==
  \/ CreateMessage(m)
  \/ RecoverStaleProcessing(m)
  \/ ExpireAmbiguousOutcome(m)
  \/ ResetForRequeue(m)

EnvironmentStep ==
  \/ \E m \in Messages : MessageStep(m)
  \/ \E a \in Attempts : RecordDeliveryReport(a)
  \/ \E o \in Operators : OperatorStep(o)

Next ==
  \/ \E w \in Workers : WorkerStep(w) \/ Abandon(w)
  \/ EnvironmentStep

Spec == Init /\ [][Next]_vars

-----------------------------------------------------------------------------
(* Safety.                                                                  *)

\* The provider took the message, or may have: the call is reserved, in
\* flight, unanswered or accepted.
Open(a) ==
  /\ attempts[a] # None
  /\ attempts[a].outcome = "FAILED" => attempts[a].isAmbiguous

\* README.md, PLAN.md and the worker's comments: a message is never delivered
\* twice.  The code does not keep this (a response that breaks off after its
\* status is taken for a refusal); what it does keep is the property below.
NoDuplicateDelivery ==
  \A a, b \in accepted : attempts[a].msg = attempts[b].msg => a = b

\* However jobs are repeated, workers crash or stall, and recovery, requeue and
\* operators interfere, a message that providers took twice is one of whose
\* responses broke off: timeouts, refused connections, answers without an id and
\* lost results never lead to a second delivery (processDispatch,
\* reserveProviderAttempt, finalizeProviderAttempt, over all providers).
OnlyCutShortCallsDuplicate ==
  \A a, b \in accepted \ cutShort : attempts[a].msg = attempts[b].msg => a = b

\* The statuses from which no job can start, nothing is recovered or requeued.
OutOfDispatch == {"AWAITING_PROVIDER_RESULT", "SENT", "DELIVERED",
                  "UNDELIVERED", "REJECTED"}

\* From its reservation to a definitive failure a provider call keeps its
\* message out of dispatch, whatever the other actors do: no second call is
\* opened, and the message is not startable, claimed or dead-lettered
\* (BEGIN_PROCESSING_FROM, recoverStaleProcessing, resetForRequeue).
OpenAttemptBlocksDispatch ==
  \A a \in Attempts : Open(a) =>
    /\ status[attempts[a].msg] \in OutOfDispatch
    /\ \A b \in Attempts : Open(b) /\ attempts[b].msg = attempts[a].msg => a = b

\* A message shown as sent, delivered or rejected was taken by a provider, and
\* carries the id under which that provider reports on it and on no other
\* message (finalizeProviderAttempt, resolveTwilioAttempt, applyDeliveryReport).
SentIsCorrelated ==
  \A m \in Messages :
    status[m] \in {"SENT", "DELIVERED", "REJECTED"} =>
      /\ providerMessageId[m] \in accepted
      /\ attempts[providerMessageId[m]].msg = m

\* A round is granted on the count read when the job began, so stalled jobs
\* can overshoot the limit: by no more than the other workers
\* (processDispatch, scheduleRetry).
RetryRoundsBounded ==
  \A m \in Messages :
    retryRounds[m] <= (MaxRetryRounds + Cardinality(Workers)) - 1

\* A message has at most one audited resolution over all its attempts, however
\* operators race with each other and with the worker (resolveTwilioAttempt).
OneResolutionPerMessage ==
  \A a, b \in Attempts :
    resolutions[a] # None /\ resolutions[b] # None
      /\ attempts[a].msg = attempts[b].msg => a = b

\* The audit row of an attempt never changes once written.
ResolutionsImmutable ==
  [][\A a \in Attempts : resolutions[a] # None => resolutions'[a] = resolutions[a]]_vars

\* Every writer of the status stays on the documented machine, although most
\* of them never consult the table (docs/states.md).
StatusMachine == INSTANCE SmsStatusSpec WITH Messages <- Messages, status <- status
ImplementsStatusSpec == StatusMachine!Spec

\* What a caller may be told about a message, and the calls that took it, with
\* or without a whole response.
PhaseOf(s) ==
  CASE s = NoMessage -> "unknown"
    [] s \in {"QUEUED", "PROCESSING", "RETRY_SCHEDULED"} -> "waiting"
    [] s = "AWAITING_PROVIDER_RESULT" -> "calling"
    [] s = "FATAL_FAILURE" -> "dead"
    [] OTHER -> s

TakenBy(m) == {a \in accepted : attempts[a].msg = m}

CutShortOf(m) == {a \in cutShort : attempts[a].msg = m}

\* Over all the races of jobs, sweeps, callbacks and operators the caller sees
\* the simple story of SmsPromise: a message is offered, requeued or given up as
\* dead only while no provider took it, unless with a response that broke off, and
\* it is confirmed or reported on only after one took it.
Promise == INSTANCE SmsPromise WITH
  Messages <- Messages, Attempts <- Attempts,
  phase <- [m \in Messages |-> PhaseOf(status[m])],
  takenBy <- [m \in Messages |-> TakenBy(m)],
  cutShort <- [m \in Messages |-> CutShortOf(m)]
KeepsPromise == Promise!Spec

-----------------------------------------------------------------------------
(* Why it is safe: the inductive invariant of the proofs.                    *)

\* The worker is between the commit of its reservation and of its result.
InCall(w) == worker[w].pc \in {"reserved", "called"}

\* A worker in a call owns its attempt, which is still RESERVED: nobody else
\* finalizes it.
CallsAreOwned ==
  /\ \A w \in Workers : worker[w].pc # "idle" => worker[w].msg \in Messages
  /\ \A w \in Workers : InCall(w) =>
       /\ worker[w].attempt \in Attempts
       /\ attempts[worker[w].attempt] # None
       /\ attempts[worker[w].attempt].msg = worker[w].msg
       /\ attempts[worker[w].attempt].outcome = "RESERVED"
  /\ \A v, w \in Workers :
       InCall(v) /\ InCall(w) /\ worker[v].attempt = worker[w].attempt => v = w

\* A provider takes a message only inside a call, and unless its response broke
\* off the answer is true.
TakenIsOpen ==
  /\ \A a \in accepted : attempts[a] # None
  /\ \A a \in accepted \ cutShort : Open(a)
  /\ \A w \in Workers :
       /\ worker[w].pc = "reserved" => worker[w].attempt \notin accepted
       /\ worker[w].pc = "called" =>
            /\ worker[w].result = "accepted" => worker[w].attempt \in accepted
            /\ worker[w].result \in {"retryable", "permanent"} =>
                 worker[w].attempt \notin accepted \ cutShort

DeliveryInv == TypeOK /\ CallsAreOwned /\ TakenIsOpen /\ OpenAttemptBlocksDispatch

\* A provider id on a row names an attempt of that row which was taken; an
\* operator about to write one holds the same evidence.
CorrelationInv ==
  /\ \A m \in Messages :
       /\ status[m] \in {"SENT", "DELIVERED", "REJECTED"} => providerMessageId[m] # None
       /\ providerMessageId[m] # None =>
            /\ providerMessageId[m] \in accepted
            /\ attempts[providerMessageId[m]].msg = m
  /\ \A o \in Operators : operator[o] # None =>
       /\ attempts[operator[o].attempt] # None
       /\ attempts[operator[o].attempt].msg = operator[o].msg
       /\ operator[o].resolution = "KNOWN_SID" => operator[o].attempt \in accepted

\* A resolved message has left AWAITING_PROVIDER_RESULT for good.
Settled == {"SENT", "DELIVERED", "UNDELIVERED", "REJECTED"}

\* The provider's id is written together with SENT, so it is there to stay.
IdsAreSettled ==
  \A m \in Messages : providerMessageId[m] # None => status[m] \in Settled

\* The jobs of a message that may still grant it a round.
Granters(m) ==
  {w \in Workers : /\ worker[w].pc # "idle"
                   /\ worker[w].msg = m
                   /\ worker[w].round < MaxRetryRounds}

\* Once the limit is reached no new granter comes, and each one left adds a
\* round at most.
RoundsInv ==
  \A m \in Messages :
    retryRounds[m] >= MaxRetryRounds =>
      retryRounds[m] + Cardinality(Granters(m))
        <= (MaxRetryRounds + Cardinality(Workers)) - 1

ResolutionInv ==
  /\ \A a \in Attempts : resolutions[a] # None =>
       attempts[a] # None /\ status[attempts[a].msg] \in Settled
  /\ OneResolutionPerMessage

=============================================================================
