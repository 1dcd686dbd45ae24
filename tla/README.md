# SMS notification service: TLA+ models, model checking and proofs

The service accepts an SMS over HTTP, stores it in PostgreSQL together with an
outbox event, relays events to BullMQ (Redis), and lets workers try Twilio and
Bird in priority order until one takes the message. The providers report the
delivery back through webhooks. This directory models all of that, from the
environment a process starts with to the report that ends a message's life.

- [Inventory](#inventory) — the system, its state, and where it is hard
- [Modules](#modules) — which module models what
- [Runs](#runs) — what TLC checks, on which instances
- [Divergences](#divergences) — where the code and its documentation disagree
- [Proofs](#proofs) — what is proved for every value of the constants
- [Limits](#limits-of-the-models) — what is abstracted, and what is not modelled
- [Plan](#plan) — what comes next

To check: `tlc -config <run>.cfg <module>.tla` for a run, `tlapm <module>Proofs.tla`
for the proofs. `PROJECT.json` maps every definition to its source lines and
lists runs, mutants, hazards, findings and theorems.

## Inventory

Paths are relative to `src/src/`.

| Component | State | Operations | What must be right |
| --- | --- | --- | --- |
| State machine `database/sms-state-machine.ts` | none; the table of lifecycle edges | `isValidTransition`, `isTerminal` | every writer of `status` stays on it, although most writers never consult it |
| Lifecycle repository `database/sms-lifecycle.repository.ts` | `sms_messages`, `sms_attempts`, `sms_attempt_resolutions`, `outbox_events` | begin, recover, reserve, finalize, resolve, schedule retry, dead-letter, expire, requeue, apply a delivery report | at most one delivery, unless a response breaks off; a sent message can be correlated with its provider's reports; an audit row is final |
| Worker `modules/queue/sms.processor.ts` | where each job stands: message, round it read, provider index, attempt, answer | one ordered pass over the providers, then retry or dead letter | replayed, stalled and crashed jobs are harmless; retries are bounded |
| Relay `modules/queue/outbox-relay.service.ts` and BullMQ | unpublished events, jobs, locks | tick: fetch a batch, add a job, mark the event | no event that starts or expires a message is lost; nobody is started early |
| Dead letters `modules/queue/dlq.*` | none of its own | notification, requeue endpoint | the requeue's intent survives |
| Recovery `modules/maintenance/processing-recovery.*` | none of its own | sweep of old `PROCESSING` rows | no abandoned message is forgotten; a live worker is not undercut |
| Expiry `modules/maintenance/ambiguous-outcome-expiry.processor.ts` | a delayed job | expire one message | every unanswered call is settled |
| Acceptance `modules/sms/sms.service.ts`, `database/sms-persistence.repository.ts` | `sms_idempotency_keys`, `sms_messages` | create or get under a key | one message per key and term under concurrency |
| Retention `modules/maintenance/retention.*` | a transaction half way | select, delete children, delete messages | only finished messages go, and they do go |
| Rate limiter `modules/queue/provider-rate-limiter.ts` | a counter with an expiry in Redis per provider | `acquire` | the limit holds; quotas are independent; nobody waits for ever |
| Webhooks `modules/webhooks/**` | a report between its lookup and its update | verify, map, look up, update | a report moves exactly its message, forwards only; an acknowledged report is kept |
| Bird mock `../mock-servers/bird/server.ts` | the messages it took, in memory | send, force a failure, simulate a callback | what it reports it took |
| Providers `modules/providers/**` | none | send, classify the outcome | a failure that may have been a delivery is ambiguous |
| Start `config/**`, `providers.module.ts`, `provider.factory.ts`, constructors | configuration, registry, networks | validate, build, listen | what validates also starts, but for the SID and the networks; providers in the declared order, with their secrets |
| Guard and validation `modules/sms/guards/**`, `modules/sms/dto/**`, `sms.service.ts` | none | check a request | exactly the callers of the listed networks, exactly the bodies within the limits once the framework has converted them |
| Encryption, logging, health | none | stateless | not modelled, but for the key's length at start |

Interaction: the HTTP side and the workers share nothing but the database; the
database and the queues are joined only by the relay. Every process runs every
component, so there may be several relays, workers, sweeps and purges.
PostgreSQL runs at READ COMMITTED: a conditional `UPDATE ... WHERE status = ...`
is atomic, and a read followed by an update is not.

The hard behaviours, each listed at its line under `hazards` in `PROJECT.json`:
crashes between a reservation and its result; jobs delivered twice, late or
never; workers presumed dead that are alive; decisions on values read before
the provider call; check-then-update races of operators, requeues and purges;
expiry against late answers and webhooks; workers of several kinds on one queue;
unique-key races; the boundary of a rate window; repeated, reordered and altered
delivery reports; configuration read twice by different rules; limits split between
two validators.

## Modules

```
SmsStateMachine            the table (constant operators)
  SmsStatusSpec            ABSTRACT: a message's status
SmsPromise                 ABSTRACT: waiting, calling, reported or dead; and the calls that took it
ProviderOutcomes           what a provider's client answers, and its classification
                           (constant operators)
  SmsDispatch              worker + repository + every racing actor   implements SmsStatusSpec, SmsPromise
    SmsPipeline            + outbox, relays, queues, maintenance jobs implements SmsDispatch
    SmsWebhooks            + signed reports, two-step updates, mock   implements SmsDispatch
  SmsRetention             the purge against all other writers
IdempotencySpec            ABSTRACT: the owner of a key
  SmsAcceptance            concurrent requests under one key          implements IdempotencySpec
PrivateNetworks            addresses, networks and their comparison (constant operators)
MetadataLimits             the inspection of metadata, and its limits (constant operators)
  SmsFrontDoor             start of a process, and a request up to its acceptance
ProviderRateLimiter        the Redis window in front of a provider
*Proofs                    theorems of the module of that name; those of the pipeline and
                           the webhooks use SmsDispatchProofs, those of the front door
                           use PrivateNetworksProofs and are about MetadataLimits too
MC*                        the instances for TLC: symmetry sets, provider orders, inputs
```

### SmsDispatch

One action is one statement that other actors can observe. A transaction whose
only decision is its conditional update is one action (`BeginProcessing`,
`ReserveProviderAttempt`, `FinalizeAccepted/Ambiguous/Failed`,
`RecoverStaleProcessing`, `ExpireAmbiguousOutcome`, `ResetForRequeue`). One that
reads, validates and then updates is two: `ValidateOutcome` followed by
`ScheduleRetry`/`MarkFatalFailure`/`OutcomeLost` for `guardedTransition`, and
`ValidateResolution` followed by `ResolveTwilioAttempt`/`ResolutionLost`. Two
other read-then-update pairs need no split, because the update repeats the whole
guard against the value that was read: in `resetForRequeue` a changed status
gives `not_fatal` either way, and in `applyDeliveryReport` it gives
`invalid_transition`, which changes nothing.

`worker` holds what `processDispatch` keeps in local variables, `round` above
all: `begin.message.retryRounds`, read once. `accepted` is the outside world: the
attempts a provider really took, and `cutShort` those of them whose response broke
off after its status. `CallProvider` takes any answer the provider's
client can give (`AnswersOf`), lets the provider take the message or not as far as
the answer leaves it open, and keeps what the worker makes of it (`Classify`).
`Abandon` lets a job die at any point.

Delivery reports come from the provider of the attempt: `TwilioCallback` and
`BirdCallback` map that provider's own status to a terminal one and apply it in
one step; any other status is acknowledged without effect, so it is no step.
`SmsWebhooks` shows that nothing is lost by that.

### SmsPromise

What a sender can rely on, without workers, attempts' rows or queues: a call is
opened for one message at a time; the message is offered again, dead-lettered or
requeued only while no call took it with a response that did not break off (`Free`),
so that at most one call ever does; and it is confirmed, or its delivery reported,
only after a provider took it. A message given up after an ambiguous call is never
offered again, and the provider may still take it afterwards (`Take` in phase
`UNDELIVERED`). `Take` is also possible once the message is confirmed: an operator who
holds the SID of an earlier call, whose response broke off, may confirm the message
while a later call is under way. The refinement mapping reads `phase` off the status
alone (`PhaseOf`: queued, claimed and retried are all `waiting`, an open attempt is
`calling`), and `takenBy` and `cutShort` off the outside world (`TakenBy`,
`CutShortOf`).

### ProviderOutcomes

An answer is a record: what was thrown if anything, whether a success carried an
id, the HTTP status of a response, and whether the error code or message says
timeout. The Twilio SDK throws a `RestException` for a complete error response and
the axios error of its transport for the rest; Bird's client throws axios errors for
both. The transport (`TransportErrors`, axios 1.20 in `package-lock.json`) puts the
status of a response on the error as soon as it has arrived, a success's included,
also when the rest times out or the connection breaks.

`Kind` is `normalizeProviderError`: its test for a `RestException` asks for a numeric
`status` only, which such an axios error has as well, so the timeout codes count only
where no response began. `IsAmbiguous` and `IsRetryable` are what both strategies make
of it, and `Classify` adds the worker's own rule that a success without an id is
ambiguous. `HasTaken` and `HasRefused` are the only facts about the world that an
answer implies: an id means the message was taken, and a complete error response that
it was not. After anything else it may or may not have been, and what broke off after
its status (`IsCutShort`) is nevertheless taken for a refusal: the worker fails over
(`v_cut_short`). Everything else the code keeps: `OnlyCutShortCallsDuplicate`.

`outbox` here is only the set of kinds of job that were ever asked for: a
committed event may be delivered at any later time and any number of times,
which covers every relay and queue. Safety proved under that assumption does
not depend on BullMQ.

### SmsPipeline

Makes the jobs state, so that one can be lost. Each action takes an action of
`SmsDispatch` and says what it does to `events`, `published`, `jobs`, `running`
and `relay`. The relay's two calls per event (`AddJob`, `MarkPublished`) are two
actions with failures between (`PublishFails`, `TickAborts`). A job's identity
is its event's; a job that ends is forgotten (`removeOnComplete`,
`removeOnFail`), so that a later `AddJob` of the same event makes a new one.

Disturbances are named by the constant `Faults` and bounded by `MaxFaults`:
crashes outside and inside a provider call, stalls (a lost lock, or a sweep over
a slow worker), jobs of any queue that fail (a dispatch job before its claim, an
expiry job before its update) and are removed, maintenance jobs taken by
another worker class, requeues. Failures of the relay are not bounded. `faults`
remembers which disturbances came, so that a property can say exactly which of them
it does not survive (`Suffered`): the intents and the liveness are checked and proved
with all of them admitted. No operator acts here, since nothing in `src/` calls
`resolveTwilioAttempt` yet.

### SmsWebhooks

`SmsDispatch` with its callbacks taken apart. A provider signs a report
(`Issue`); it stays `issued`, and may arrive at any time, any number of times, in
any order or never. A request pairs a body with a signature, and the two need not
belong together, which is an altered or misdirected request. `ReceiveReport` is the
controllers' checks in their order, the status maps and the lookup of
`applyDeliveryReport`; `CommitReport` is its conditional update. Several handlers
run at a time, between the steps of workers, operators, the expiry and the requeue.
`acked` remembers what was answered 200.

Bird is the mock server that `compose.yaml` deploys in its place: its forced
failures, a connection that fails before or after the message is stored, the
callback with a status of the caller's choice, and a restart that forgets all
messages.

### SmsFrontDoor

A process is deployed with some environment: `ValidateEnvironment`, then the
factory and the guard in any order, each of which may throw, then `Listen` with
`EncryptionService.onModuleInit`. A request passes the guard, the `ValidationPipe`
and the service's own checks, in Nest's order; what is accepted is handed to
`SmsAcceptance`, and what is refused has touched no table. The process may stop at any point and be
deployed anew. Texts are records of what their parsers distinguish: an address by
its form, the groups before "::" and the groups after it; a prefix by absent,
empty, a number, or no number; a metadata value by its tree; an account SID by whether
it begins with "AC", which the Twilio SDK's constructor asks for (`CanConstruct`) and
the validation does not.

The pipe converts a body before it validates it. Of metadata, the framework drops the
entries under some reserved keys (Nest's `stripProtoKeys` and class-transformer:
`__proto__` and `constructor`), with all that is under them: `Converted`, a constant that
`ConversionAssumption` describes, since it is not this repository's code. Both
validators and the limits are about what is left.

The guard's arithmetic is in `PrivateNetworks` and the inspection in
`MetadataLimits`, each next to a definition of another kind: `IsInBlock` compares
bits of the two texts, where the code computes a number and a mask, and
`IsWithinLimits` counts over the set of all entries of a value, each with its place,
where the code stops at the first violation and shares a counter between the
levels. Both recursions are functions on the naturals: `Inspect` by the levels that
are left (`MaxDepth + 1` minus the code's `depth`), and its values are functions of
the value and of `keyCount`. `Items` is a set of values that contains what is in
them.

### SmsAcceptance

The transaction of `createOrGetMessage` statement by statement: find, delete the
expired row, insert. A deleted row stays locked until its transaction ends, and
whoever touches it waits (`MayTouch`); the waiting statement then works on what
was committed, as PostgreSQL does. `now` is read once per request and kept for
the second try, as in the code. The clock is bounded (`MaxTime`), and a request
lasts at most `MaxAge` ticks, less than a key's term (`AcceptanceAssumption`):
transactions time out after seconds and keys live for hours.

### SmsRetention

`SelectExpired`, one `DeleteChildren` per child table, `DeleteMessages`, each
seeing what the others committed in between. The other writers are reduced to
what a purge can notice: the status they commit (any edge of the table) and the
child rows they insert (`InsertedWith`). Requeues and aborted purges are bounded
by `MaxFaults`.

### ProviderRateLimiter

`RunScript` is the Lua script; `Grant` and `Sleep` are the two ways `acquire`
goes on. Redis still has a key in the instant of its expiry, with a PTTL of 0
(`ttl = 0`), and has lost it afterwards (`Gone`). A tick is one millisecond
seen from afar: what matters is the order of events around a window's end, and
a window of two or three ticks has a beginning, a middle and that last instant.

## Runs

`CHECK_DEADLOCK FALSE` appears where the system may legitimately stop: every
message settled and nobody asking anything, ids or the clock exhausted. The
limiter never stops, since time goes on.

| Run | Question | Instance |
| --- | --- | --- |
| `dispatch_race` | `TypeOK`, `OnlyCutShortCallsDuplicate`, `OpenAttemptBlocksDispatch`, `SentIsCorrelated`, `OneResolutionPerMessage`, `ResolutionsImmutable`, `ImplementsStatusSpec`, `KeepsPromise` | 2 messages, 2 workers, 2 operators, 3 attempts, Twilio then Bird, one response that breaks off after its call took the message |
| `webhooks_race` | `WebhooksTypeOK`, `AckedIsHeld`, `ReportedIsIssued`, `ImplementsDispatch` | 2 messages, 2 workers, 1 operator, 2 attempts (Twilio then Bird), 2 handlers, 3 different reports, one response that breaks off |
| `pipeline_intents` | `PipelineTypeOK`, `StartIntentKept`, `ExpiryIntentKept`, `RetryRoundsBounded`, `ImplementsDispatch`, and, under fairness, `AcceptedIsDecided` and `ParkedIsFinalized` | 1 message, 2 workers, 1 relay, 4 attempts, one disturbance of any of the six kinds |
| `acceptance_keys` | `AcceptanceTypeOK`, `OneMessagePerTerm`, `RepliesAreLive`, `ConflictIsAbsorbed`, `NobodyWaitsInVain`, `ImplementsIdempotency`, `RequestsAreShort`, `RequestsFinish` | 3 requests, 1 key, two terms of 3 ticks, requests of up to 2 |
| `front_door` | `FrontDoorTypeOK`, `OnlySidOrNetworksStopAStart`, `ProvidersAreComplete`, `CallersAreOfTheNetworks`, `AcceptedAreWithinLimits` | IPv4 of 2 octets of 2 bits, IPv6 of 3 groups of 2 bits, every prefix; 155 environments; metadata with and without keys the framework drops, with up to 3 keys and depth 2 allowed, up to 6 keys and depth 4 sent |
| `retention_purge` | `RetentionTypeOK`, `PurgedAreFinished`, `ExpiredArePurged` | 2 messages, 2 purges, batches of 2, one disturbance |
| `limiter_quota` | `LimiterTypeOK`, `LimitHoldsBeforeTheEnd`, `SleepersWakeWithTheWindow`, `WaitsOnlyWhenExhausted`, `CallsAreServed` | 4 calls, 2 providers, 1 slot, window of 2 ticks |

Why these bounds are enough to be interesting:

- Messages interact only through an operator's request naming an attempt, and a
  purge's batch; those runs have two messages, the others one.
- `Attempts` bounds how many provider calls a behaviour has. Three let one message
  fail over to the second provider while the other one waits for an answer; four
  let a message go through a retry round, a requeue and a racing worker's call.
- One relay whose tick may fail after each of its calls leaves every half-done state
  a second one would find; overlapping batches of any number of relays are covered by
  the proofs of `StartIntentKept` and `ExpiryIntentKept`.
- Two workers show every race of a worker with its predecessor. A disturbance is
  what makes a predecessor, so one of them is enough for each race; the proofs
  have no such bound.
- `MaxCutShort` bounds the calls that take a message although their response breaks
  off: one is the first half of every duplicate, and the next call the other. Where it
  is 0 (`pipeline_intents` and the runs on the queue alone) responses still break off,
  of calls that did not take the message: nothing in the worker, the relay or the
  sweep reads what a provider took, so the same queue states are reached.
- A behaviour with two terms of a key has an expired row, its deletion, and a
  request that read it before another replaced it.
- Three calls of one provider overfill a window of one slot, and the fourth
  belongs to the other provider, or overfills it further.

- Two reports on one message and one on another, two of them handled at once, show
  every race of a report with a report; a third report lets a repeat arrive late.
- The code's address arithmetic is uniform in the number and width of groups. Two
  octets and three groups have a prefix within a group, on its border, 0, full, and
  one too long; "::" at either end, in the middle, and for one or more groups.
- Environments and requests each vary in one respect from good ones, since the
  checks are independent; every environment meets every request.

Every property of these runs has a mutant in `PROJECT.json`: a definition changed
as a plausible bug would change it, which makes TLC find the property violated.
Mutants are written beside the definition they replace and used nowhere.

### Fairness

- `SmsDispatch` states no fairness: its properties are about safety.
- `SmsPipeline!PipelineFairness`: some job that can be taken is taken
  (`TakeJob`), since BullMQ keeps its workers running; a worker goes on; a relay's ticks go on, since `setInterval`
  repeats; and adding and marking are strongly fair, because a queue or database
  that is now and then reachable is now and then reached by a relay that tries
  for ever, although each try may fail. The sweep is weakly fair because its
  scheduler repeats it, so that losing one sweep job to another worker class only
  delays it; the expiry job exists once and has no such excuse.
- `SmsAcceptance!FairSpec`: a statement that does not wait for a lock is answered.
- `SmsRetention!FairSpec`: the scheduler repeats the purge, and a transaction ends.
- `ProviderRateLimiter!FairSpec`: time passes, Redis answers, a due timer fires.
  Each call needs one slot; an endless stream of new calls could starve an old
  one, since windows are not a queue, and the model has finitely many calls.

## Divergences

Each of these runs checks one statement of the repository's documentation or
comments, and TLC finds a behaviour of the code that contradicts it. The
quotations and lines are under `findings` in `PROJECT.json`.

| Run | Statement | What happens |
| --- | --- | --- |
| `v_expiry_swallowed` | an ambiguous message is not parked for ever | three worker classes share the maintenance queue and complete each other's jobs |
| `v_cut_short` | a timeout is never failed over, no delivery is duplicated | a call that times out or breaks off after the status of its response is classified as an HTTP error, and the next provider is called |
| `v_job_lost` | accepted messages survive downtime | a dispatch job that fails before its claim is removed and its event is published already |
| `v_callback` | an ambiguous message waits until a webhook resolves it | `providerMessageId` is written only together with `SENT`, so the report on an ambiguous call finds no message and is answered 404 |
| `v_retention` | in-flight messages are never purged | a requeue between the selection and the delete |

`pipeline_intents` checks the promises behind the first and the third with their
exceptions named, so that together the runs say what each depends on:
`AcceptedIsDecided` on no failed job, `ParkedIsFinalized` on that, on no foreign
worker class and on no worker that dies within its call.

Also contradicted by the code, where a property states what holds instead:

- `docs/states.md:17` says that a delayed expiry finalizes an unanswered message. An
  expiry job that fails once is removed, its event is published already, and nothing
  makes another (`JobFails`); and the expiry event is committed with an ambiguous
  result, not with the reservation, so that a worker that dies in its call leaves none
  (`WorkerCrashes`). `ParkedIsFinalized` exempts both by name and fails without either
  exemption.
- `docs/configuration.md:3-5` says that the validation reports every problem of a
  configuration. It accepts an account SID or a network that is none, and a
  constructor throws later: the two exceptions of `OnlySidOrNetworksStopAStart`.
- `docs/api.md:38` calls `metadata` an arbitrary JSON object, names no cause of a 400
  for it (lines 82-87), and `openapi.yaml:79-85` names its kind and its 4096 bytes
  only. The service also refuses more than 20 keys, a depth above 4, texts above 256
  and keys above 64 characters (`sms.service.ts:93-115`): `AcceptedAreWithinLimits`
  states these limits, which are the code's and not the documents'.

Also seen while modelling, and visible in the models:

- `sms.processor.ts:57` says only one worker can hold a message at a time. The
  sweep releases a message whose worker is only slow, and a second one claims
  it; delivery stays single because the reservation is exclusive.
- The retry limit can be overshot for the same reason, by at most the number of
  other workers (`RetryRoundsBounded`).
- A worker presumed dead decides on the round count it read before a requeue
  (`sms.processor.ts:170`) and may dead-letter the requeued message at once, though
  `docs/dlq-runbook.md:77` says a requeue restores the full budget.
- `resolveTwilioAttempt` checks that the attempt is ambiguous, and its update checks
  the message alone: between the two the worker can finalize that attempt as a
  definitive failure and reserve the next provider, so that an audit row names a
  call known to have failed.
- Of two identical reports that arrive together, the one whose update comes second is
  answered 409 (`DropReport`), though `docs/api.md:165-166` says a repeat is
  answered 200; the provider's next try is.
- A job whose event could not be marked published is added again after it ended
  and may start a retry round before its delay (`queue.constants.ts:5` expects
  the id to prevent that; `removeOnComplete` forgets the id).
- In the last instant of a rate window the script returns a PTTL of 0, which
  `acquire` takes for a slot: hence `LimitHoldsBeforeTheEnd`, not more.

## Proofs

TLAPS checks all of these for every value of the constants that meets the named
assumptions. No step is taken on trust.

**SmsDispatchProofs.** `DeliveryInv` is inductive. `OnlyCutShortCallsDuplicate` alone
is not: that a second call cannot start depends on what the status says while a call
is open (`OpenAttemptBlocksDispatch`), on a worker in a call owning its attempt,
still `RESERVED` (`CallsAreOwned`), and on what providers took being open unless its
response broke off (`TakenIsOpen`). The last one rests on
`DefinitiveAnswersAreResponses`, by cases over everything a client can return or
throw: the worker releases an attempt exactly when a status arrived, with a complete
error response, which is a refusal, or with one cut short, which is none. At-most-once
delivery up to those calls follows because what was taken otherwise is open and a
message has one open attempt. `WholeResponsesPreventDuplicates` draws the line:
where no response breaks off (`MaxCutShort = 0`), nothing is delivered twice. `CorrelationInv` adds that ids on
rows are evidence, also those an operator is about to write, which needs that
attempts keep their message and `accepted` only grows. `ResolutionInv` needs
that a resolved message has left `AWAITING_PROVIDER_RESULT` for good: its
attempt was open, and an open attempt keeps the message out of dispatch. The
refinement of `SmsStatusSpec` is one lemma per writer of `status`.

`DispatchKeepsPromise` proves `KeepsPromise`: each action
maps to a step of `SmsPromise` or a stutter, one lemma per action. What makes it go
through is `DeliveryInv` together with `IdsAreSettled`, a theorem of its own
(`OnlySettledMessagesCarryIds`): it is also why no report can reach an ambiguous
message (`v_callback`). `RetryRoundsAreBounded`
proves `RetryRoundsBounded`, a cardinality argument: once the limit is reached, no
worker that is not already on its way with an older count can grant a round
(`Granters`), and each that is grants one at most, so that rounds and granters
together stay within the bound (`RoundsInv`). It assumes that workers are finitely many.

**SmsPipelineProofs.** Every step of the pipeline is a step of `SmsDispatch` or
leaves its variables alone, hence `PipelineImplementsDispatch`, through which
`OnlyCutShortCallsDuplicate` and the rest (`PipelineKeepsPromises`) carry over. `NoStartIntentIsLost` proves
`StartIntentKept` by `IntentInv`, whose core is that a message becomes startable
only together with a newer event, and only a job that failed (`Suffered`) ends it;
`v_job_lost` shows that this exception is needed.

`NoExpiryIntentIsLost` proves `ExpiryIntentKept` by
`ExpiryInv`. A message has at most one unanswered call, since that call keeps it
out of dispatch, and so at most one expiry event, committed when the call
became unanswered (`ExpiriesHaveACause`); no step parks a message otherwise. A
relay that has added the event left it in the queue (`AddedExpiryIsQueued`),
because an expiry never holds a dispatch worker's lock (`OnlyStartsRun`), and
the job that consumes it settles the message, unless a job failed or was completed by
another class: the exceptions the property names (`FaultsAreRemembered`).

**SmsAcceptanceProofs.** `AcceptanceInv`: a key's row carries its latest message,
which every other precedes by a term (`RowIsLatest`); who holds the lock saw the
row expired (`DeleterSawItExpired`); a row in a request's way was created
while that request ran, so its term outlasts it (`InTheWayIsLive`). This last
part is where `MaxAge < TTL` is used. What `RequestsFinish` rests on is proved for any
number of requests: a request has four statements at most
(`RequestsTakeFourStatements`), and while it waits, the request it waits for can go
on (`WaitingIsNotInVain`). Only the step from there to "finishes", by the fairness of
each `RequestStep`, is TLC's.

**SmsWebhooksProofs.** `WebhooksInv`: what a provider reports on it took
(`IssuedAreTaken`), and a handler's message still carries the id it was found by
(`HandlersAreInformed`), since an id never changes once it is set. With that,
`CommitReport` is `ApplyDeliveryReport`, and `WebhooksImplementDispatch` carries
the theorems on `SmsDispatch` over (`WebhooksKeepPromises`). `AcknowledgedReportsStay` rests on delivered,
undelivered and rejected being final in the table.

**SmsRetentionProofs.** What a purge selected is terminal or was requeued since
(`SelectedAreFinished`).

**ProviderRateLimiterProofs.** `GrantsAreCounted`: grants equal the count up to
the limit, and exceed it only in the last instant. `NobodySleepsThroughAWindow` is
the bound behind `CallsAreServed`: a timer and the key it was set from run out
together.

**PrivateNetworksProofs.** `MatchesIsInBlock`: for every number and width of octets
and groups, the guard's mask compares the bits it should. TLC sees addresses of 4
and 6 bits; the theorem covers 32 and 128. The value of a row of groups is cut back
to its first k groups by a division (`ValuesAreQuotients`), so that bit i of the
value is a bit of one group of the text (`ValueBits`), and two values agree after
the division by a power of two iff they agree on every bit that is left
(`MaskComparesBits`). `RowOfShortened` is the part about "::".

The first section of the module is what makes this possible: `SetInduction` is
induction stated about a set, and `Iteration` is the existence of a function that
takes given steps. Neither has an operator as a parameter, and with the two a
recursive function can be unfolded (`TwoToDef`, `ValueDef`, `InspectDef`,
`EntriesDef`).

**SmsFrontDoorProofs.** `InspectionIsExact`, for all limits and all values: by
induction on the levels that are left, an inspection answers whether the entries
within that many levels fit and the keys before and among them are not too many,
and if so it leaves their number in the counter (`TellsAll`). One callback of
`every` extends this from the entries before it to those with its own
(`EntryTells`), because no place occurs twice and so the keys add up
(`FirstOfCount`).

`FrontDoorInv` is inductive and gives all five properties. `StartInv` says of each
stage what has been read and built by then: the registry is the whole priority, or
a constructor refused, which only Twilio's does and only for a SID that is no
account's, since the credentials the constructors read are among those the validation
requires; and the guard's networks are the parsed list (`NetworksAreParsed`). `RequestInv` says
what the checks a request has passed or failed imply. Then `ServesAllProviders`
needs that `getOrderedProviders` skips nobody (`NoneIsSkipped`), `GuardIsExact`
needs `MatchesIsInBlock`, and `AcceptanceIsExact` needs `InspectionIsExact`, applied
to what the framework's conversion leaves of the object that was sent
(`ConvertedType`). The assumptions on `Environments`, `SendRequests` and `Items` give
their types; `ConversionAssumption` says in addition that the conversion drops the
reserved entries and converts the others.

Only model-checked: all liveness (`AcceptedIsDecided`, `ParkedIsFinalized`,
`RequestsFinish`, `ExpiredArePurged`, `CallsAreServed`), since TLAPS proves neither
fairness nor `ENABLED`. Every invariant and every action property of the passing
runs, and every refinement, is a theorem.

## Limits of the models

- Attempt ids, message ids, event ids are fresh: an id is given out once.
  A provider's message id is identified with the attempt it was returned for, so
  that two providers never return the same id.
- The operator is honest: a SID is quoted only for a call Twilio took. The
  code checks its format and cannot check more.
- A complete HTTP error response from a provider means it did not take the message
  (`HasRefused`). The worker assumes the same when it fails over. A gateway that
  answers 408 or 5xx for a provider that did take it would break the assumption,
  and `OnlyCutShortCallsDuplicate` with it. Only a response whose body is not whole is
  left open.
- `HttpStatuses` has a status on each side of each comparison in the code.
- Time is abstract except in acceptance and limiter. In the dispatch, a row that
  is `PROCESSING` may always be old enough for the sweep, and an expiry
  always due.
- `deliveryAttempts`, `selectedProvider`, `lastError`, an event's `retryCount` and
  the text of errors are written and never read by a decision; they are left out.
- A Twilio signature covers the callback URL and the sorted parameters run together;
  the model takes two requests with the same signed text for the same request.
- Of the IPv6 texts with a dotted tail only `::ffff:a.b.c.d` is among `Texts`: the
  guard's parser reads the groups of any other (`64:ff9b::10.0.0.0`, say) as
  hexadecimal, and neither `CallersAreOfTheNetworks` nor `MatchesIsInBlock` says
  anything of it. An IPv4 address mapped in hexadecimal groups (`::ffff:a00:1`) is an
  IPv6 address here as in the code, not the IPv4 address it stands for.
- What Nest and class-transformer do to a body before it is validated is modelled by
  its effect on `metadata`: reserved entries are gone (`Converted`), and the size that
  is measured is that of what is left. A `metadata` that is an explicit null is not
  sent.
- Purging is not composed with the dispatch: in `SmsDispatch` rows stay. The path
  "message row disappeared" of the worker is left out with it.
- Redis does not lose data: a restart without persistence would lose jobs whose
  events are published, and counters of the limiter.
- `guardConcurrency` does not catch `InvalidStateTransitionError`, so a job that
  finds its message moved on between the loop and `guardedTransition` fails
  instead of being acknowledged. Neither changes the database (`OutcomeInvalid`).
- `RETRY_BACKOFF_BASE_MS` is documented as tunable (docs/configuration.md) and
  the worker uses the default constant. No model has that delay.

- `resolveTwilioAttempt` is modelled because `docs/states.md:82` names the operator decision it takes and
  because it writes rows the workers read; nothing in `src/` calls it yet.

Not modelled, with the reason:

- `ProviderManager.dispatch`, `markPermanentProviderFailure` and
  `recordProviderAttempt`: nothing in `src/` calls them.
- `encrypt` and `decrypt`: pure; a body that cannot be decrypted makes the job fail,
  which is `Abandon`.
- The worker's path for a message row that disappeared: only the purge of an
  in-flight message leads there, and `v_retention` stops at that purge.
- Logging, masking and the health endpoint: no state of the domain.
- Tests, build files and documents.

## Plan

Done: all of the above. What could follow, in this order:

1. Compose retention with the dispatch, so that a purged message meets running
   workers and delayed jobs.
2. The limiter inside the worker's call, with the stall it can cause.
3. Several deployments side by side, with different priorities and keys.
