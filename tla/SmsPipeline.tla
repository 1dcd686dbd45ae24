----------------------------- MODULE SmsPipeline -----------------------------
(***************************************************************************)
(* The transactional outbox around the dispatch: every event a transaction *)
(* commits, the relay that turns events into BullMQ jobs                   *)
(* (modules/queue/outbox-relay.service), and the processors that consume   *)
(* them (sms.processor, dlq.processor, maintenance/*.processor).           *)
(*                                                                         *)
(* SmsDispatch lets a committed event be delivered at any time, any number *)
(* of times.  Here the jobs are state, so that an event can also be lost.  *)
(* An action takes one of SmsDispatch and says what it does to the events  *)
(* and to the queues.                                                      *)
(*                                                                         *)
(* A job is its event's id: the relay names it messageId#eventId.  Jobs    *)
(* are removed when they end (ephemeralJobOptions), and run once           *)
(* (`attempts` is not set).                                                *)
(***************************************************************************)
EXTENDS SmsDispatch

CONSTANTS
  Relays,      \* OutboxRelayService instances, one per process
  BatchSize,   \* OUTBOX_RELAY_BATCH_SIZE
  Faults,      \* the kinds of disturbance a run admits
  MaxFaults    \* and how many of them in one behaviour

FaultKinds == {"crash",            \* a worker dies outside a provider call
               "crash in call",    \* between reserving a call and its result
               "stall",            \* a live worker loses its lock or its row
               "job fails",        \* an error before a job changed anything
               "wrong processor",  \* a maintenance job reaches another class
               "requeue"}          \* an administrator requeues a dead letter

ASSUME PipelineAssumption ==
  /\ BatchSize \in Nat \ {0}
  /\ Faults \subseteq FaultKinds
  /\ MaxFaults \in Nat

VARIABLES
  events,     \* outbox_events in the order of createdAt; an id is an index
  published,  \* events whose publishedAt is set
  jobs,       \* waiting or delayed jobs, in all queues
  running,    \* the job each worker holds the lock of, 0 when none
  relay,      \* each relay's tick: events still to do, first already added
  faults      \* the disturbances so far, in order

queueVars == <<published, jobs, running, relay>>
pipelineVars == <<vars, events, queueVars, faults>>

\* "retry" is a delayed start; the other three kinds that start a message
\* (queued, requeued, recovered) carry no delay.
StartKinds == {"dispatch", "retry"}
EventKinds == StartKinds \cup {"dead-letter", "expiry"}

Ids == 1 .. Len(events)

FaultsOK == faults \in Seq(Faults) /\ Len(faults) <= MaxFaults

PipelineTypeOK ==
  /\ events \in Seq([msg : Messages, kind : EventKinds])
  /\ published \subseteq Ids
  /\ jobs \subseteq Ids
  /\ running \in [Workers -> Ids \cup {0}]
  /\ relay \in [Relays -> [batch : SUBSET Ids, added : BOOLEAN]]
  /\ FaultsOK

NoTick == [batch |-> {}, added |-> FALSE]

PipelineInit ==
  /\ Init
  /\ events = <<>>
  /\ published = {}
  /\ jobs = {}
  /\ running = [w \in Workers |-> 0]
  /\ relay = [r \in Relays |-> NoTick]
  /\ faults = <<>>

Record(m, kind) == events' = Append(events, [msg |-> m, kind |-> kind])

Fault(kind) ==
  /\ kind \in Faults
  /\ Len(faults) < MaxFaults
  /\ faults' = Append(faults, kind)

Suffered(kind) == \E i \in DOMAIN faults : faults[i] = kind

-----------------------------------------------------------------------------
(* The relay.  A tick fetches a batch, oldest first, and for each event adds *)
(* its job and then marks the event, in two calls to two systems.           *)

Unpublished == Ids \ published

FetchBatch(r) ==
  /\ relay[r].batch = {}
  /\ Unpublished # {}
  /\ relay' = [relay EXCEPT ![r].batch =
                 {i \in Unpublished : Cardinality({k \in Unpublished : k <= i}) <= BatchSize}]
  /\ UNCHANGED <<vars, events, published, jobs, running, faults>>

\* The event the tick has come to.
IsCurrent(r, i) == i \in relay[r].batch /\ \A k \in relay[r].batch : i <= k

\* What is left of the tick once event i is dealt with.
After(r, i) == [relay EXCEPT ![r] = [batch |-> relay[r].batch \ {i}, added |-> FALSE]]

\* Mutant: the job is named after its message alone.
AddJob_perMessage(r, i) ==
  /\ IsCurrent(r, i)
  /\ ~relay[r].added
  /\ jobs' = jobs \cup {events[i].msg}
  /\ relay' = [relay EXCEPT ![r].added = TRUE]
  /\ UNCHANGED <<vars, events, published, running, faults>>

\* BullMQ ignores an id that is still a job, waiting or active.
AddJob(r, i) ==
  /\ IsCurrent(r, i)
  /\ ~relay[r].added
  /\ jobs' = IF \E w \in Workers : running[w] = i THEN jobs ELSE jobs \cup {i}
  /\ relay' = [relay EXCEPT ![r].added = TRUE]
  /\ UNCHANGED <<vars, events, published, running, faults>>

\* Mutant: the event is marked before its job is added.
MarkPublished_first(r, i) ==
  /\ IsCurrent(r, i)
  /\ published' = published \cup {i}
  /\ relay' = IF relay[r].added THEN After(r, i) ELSE relay
  /\ UNCHANGED <<vars, events, jobs, running, faults>>

MarkPublished(r, i) ==
  /\ IsCurrent(r, i)
  /\ relay[r].added
  /\ published' = published \cup {i}
  /\ relay' = After(r, i)
  /\ UNCHANGED <<vars, events, jobs, running, faults>>

\* Mutant: the failed event is marked all the same.
PublishFails_marks(r, i) ==
  /\ IsCurrent(r, i)
  /\ published' = published \cup {i}
  /\ relay' = After(r, i)
  /\ UNCHANGED <<vars, events, jobs, running, faults>>

\* Adding or marking threw: the failure is recorded, the batch goes on.
PublishFails(r, i) ==
  /\ IsCurrent(r, i)
  /\ relay' = After(r, i)
  /\ UNCHANGED <<vars, events, published, jobs, running, faults>>

\* Recording the failure threw too, or the process died.
TickAborts(r) ==
  /\ relay[r].batch # {}
  /\ relay' = [relay EXCEPT ![r] = NoTick]
  /\ UNCHANGED <<vars, events, published, jobs, running, faults>>

-----------------------------------------------------------------------------
(* The dispatch queue.                                                      *)

\* Mutant: the message is started without the conditional claim.
StartJob_unclaimed(w, j) ==
  /\ j \in jobs
  /\ events[j].kind \in StartKinds
  /\ running[w] = 0
  /\ worker[w].pc = "idle"
  /\ LET m == events[j].msg IN
     /\ SetStatus(m, "PROCESSING")
     /\ worker' = [worker EXCEPT ![w] =
                     [Idle EXCEPT !.pc = "pass", !.msg = m, !.round = retryRounds[m]]]
  /\ jobs' = jobs \ {j}
  /\ running' = [running EXCEPT ![w] = j]
  /\ UNCHANGED <<retryRounds, providerMessageId, outbox, attempts, resolutions,
                 operator, accepted, cutShort, events, published, relay, faults>>

StartJob(w, j) ==
  /\ j \in jobs
  /\ events[j].kind \in StartKinds
  /\ running[w] = 0
  /\ BeginProcessing(w, events[j].msg)
  /\ jobs' = jobs \ {j}
  /\ running' = [running EXCEPT ![w] = j]
  /\ UNCHANGED <<events, published, relay, faults>>

\* A job that ends without touching the database.
ConsumeJob(j) ==
  /\ j \in jobs
  /\ jobs' = jobs \ {j}
  /\ UNCHANGED <<vars, events, published, running, relay>>

\* not_startable: the job completes as `skipped`.
SkipJob(j) ==
  /\ ConsumeJob(j)
  /\ events[j].kind \in StartKinds
  /\ status[events[j].msg] \notin BeginProcessingFrom
  /\ UNCHANGED faults

\* beginProcessing, the expiry or the audit of a dead letter threw, or the job
\* stalled twice before it: whatever its queue, it fails and is removed.
JobFails(j) ==
  /\ ConsumeJob(j)
  /\ Fault("job fails")

\* A new attempt has a fresh id; which one does not matter.
FreshAttempt ==
  LET unused == {a \in Attempts : attempts[a] = None}
  IN  IF unused = {} THEN {} ELSE {CHOOSE a \in unused : TRUE}

ContinueJob(w) ==
  /\ \/ \E a \in FreshAttempt : ReserveProviderAttempt(w, a)
     \/ CallProvider(w)
     \/ FinalizeFailed(w)
     \/ ValidateOutcome(w)
  /\ UNCHANGED <<events, queueVars, faults>>

\* The job completes or fails; either way it is removed.
EndJob(w) ==
  /\ \/ ReservationLost(w)       /\ UNCHANGED events
     \/ FinalizeAccepted(w)      /\ UNCHANGED events
     \/ FinalizeLost(w)          /\ UNCHANGED events
     \/ OutcomeInvalid(w)        /\ UNCHANGED events
     \/ OutcomeLost(w)           /\ UNCHANGED events
     \/ FinalizeAmbiguous(w)     /\ Record(Msg(w), "expiry")
     \/ ScheduleRetry(w)         /\ Record(Msg(w), "retry")
     \/ MarkFatalFailure(w)      /\ Record(Msg(w), "dead-letter")
  /\ running' = [running EXCEPT ![w] = 0]
  /\ UNCHANGED <<published, jobs, relay, faults>>

\* The jobs back in the queue after the lock on j was lost.
Redelivered(j) == IF j = 0 THEN jobs ELSE jobs \cup {j}

\* The worker dies.  BullMQ re-runs a stalled job, and fails it the second time.
WorkerCrashes(w) ==
  /\ Fault(IF InCall(w) THEN "crash in call" ELSE "crash")
  /\ Abandon(w)
  /\ jobs' \in {jobs, Redelivered(running[w])}
  /\ running' = [running EXCEPT ![w] = 0]
  /\ UNCHANGED <<events, published, relay>>

\* A blocked event loop loses the lock of its job and then goes on.
JobStalls(w) ==
  /\ Fault("stall")
  /\ running[w] # 0
  /\ jobs' = Redelivered(running[w])
  /\ running' = [running EXCEPT ![w] = 0]
  /\ UNCHANGED <<vars, events, published, relay>>

-----------------------------------------------------------------------------
(* Acceptance, the other queues and the endpoints.                          *)

Accept(m) ==
  /\ CreateMessage(m)
  /\ Record(m, "dispatch")
  /\ UNCHANGED <<queueVars, faults>>

\* Mutant: the sweep commits no event.
RecoverAbandoned_silently(m) ==
  /\ \A w \in Workers : Msg(w) # m
  /\ RecoverStaleProcessing(m)
  /\ UNCHANGED <<events, queueVars, faults>>

\* The sweep finds a message that nobody works on ...
RecoverAbandoned(m) ==
  /\ \A w \in Workers : Msg(w) # m
  /\ RecoverStaleProcessing(m)
  /\ Record(m, "dispatch")
  /\ UNCHANGED <<queueVars, faults>>

\* ... or one whose worker is only slower than the cutoff.
RecoverFromLiveWorker(m) ==
  /\ Fault("stall")
  /\ \E w \in Workers : Msg(w) = m
  /\ RecoverStaleProcessing(m)
  /\ Record(m, "dispatch")
  /\ UNCHANGED queueVars

RunExpiry(j) ==
  /\ j \in jobs
  /\ events[j].kind = "expiry"
  /\ \/ ExpireAmbiguousOutcome(events[j].msg)
     \/ status[events[j].msg] # "AWAITING_PROVIDER_RESULT" /\ UNCHANGED vars
  /\ jobs' = jobs \ {j}
  /\ UNCHANGED <<events, published, running, relay, faults>>

\* Three worker classes read the maintenance queue; each completes the jobs
\* whose name is not its own.
WrongProcessor(j) ==
  /\ ConsumeJob(j)
  /\ events[j].kind = "expiry"
  /\ Fault("wrong processor")

NotifyDeadLetter(j) ==
  /\ ConsumeJob(j)
  /\ events[j].kind = "dead-letter"
  /\ UNCHANGED faults

RequeueDeadLetter(m) ==
  /\ Fault("requeue")
  /\ ResetForRequeue(m)
  /\ Record(m, "dispatch")
  /\ UNCHANGED queueVars

\* The webhooks.  Nothing in src/ calls resolveTwilioAttempt yet, so no operator
\* acts here.
CallersStep ==
  /\ \E a \in Attempts : RecordDeliveryReport(a)
  /\ UNCHANGED <<events, queueVars, faults>>

-----------------------------------------------------------------------------

RelayStep(r) ==
  \/ FetchBatch(r)
  \/ \E i \in Ids : AddJob(r, i) \/ MarkPublished(r, i) \/ PublishFails(r, i)
  \/ TickAborts(r)

\* A processor takes one job of its queue.
TakeJob ==
  \E j \in jobs :
    \/ \E w \in Workers : StartJob(w, j)
    \/ SkipJob(j)
    \/ RunExpiry(j)
    \/ NotifyDeadLetter(j)

FaultStep ==
  \/ \E j \in jobs : JobFails(j) \/ WrongProcessor(j)
  \/ \E w \in Workers : WorkerCrashes(w) \/ JobStalls(w)
  \/ \E m \in Messages : RecoverFromLiveWorker(m) \/ RequeueDeadLetter(m)

PipelineNext ==
  \/ \E m \in Messages : Accept(m) \/ RecoverAbandoned(m)
  \/ \E r \in Relays : RelayStep(r)
  \/ TakeJob
  \/ \E w \in Workers : ContinueJob(w) \/ EndJob(w)
  \/ FaultStep
  \/ CallersStep

PipelineSpec == PipelineInit /\ [][PipelineNext]_pipelineVars

\* Processes keep running and their workers take jobs; a queue or a database
\* that fails now and then also answers now and then, so a relay that tries for
\* ever gets through; the recovery scheduler repeats for ever.
PipelineFairness ==
  /\ WF_pipelineVars(TakeJob)
  /\ \A w \in Workers : WF_pipelineVars(ContinueJob(w) \/ EndJob(w))
  /\ \A r \in Relays : /\ WF_pipelineVars(FetchBatch(r))
                       /\ SF_pipelineVars(\E i \in Ids : AddJob(r, i))
                       /\ SF_pipelineVars(\E i \in Ids : MarkPublished(r, i))
  /\ \A m \in Messages : WF_pipelineVars(RecoverAbandoned(m))

PipelineFairSpec == PipelineSpec /\ PipelineFairness

-----------------------------------------------------------------------------
(* Properties.                                                              *)

\* The events that start m; the newest is the one that must not be lost.
StartEvents(m) == {i \in Ids : events[i].msg = m /\ events[i].kind \in StartKinds}

IsNewestStart(m, i) == i \in StartEvents(m) /\ \A k \in StartEvents(m) : k <= i

StartsArePending ==
  \A m \in Messages : status[m] \in BeginProcessingFrom =>
    \E i \in Ids : IsNewestStart(m, i) /\ (i \in Unpublished \/ i \in jobs)

\* A message that waits to be dispatched has its newest start event still to be
\* relayed, or waiting as a job, whatever the relays, the crashes and the
\* duplicated jobs did before; only a job that failed on the way can have taken
\* it along (relayOnce, ephemeralJobOptions, beginProcessing).
StartIntentKept == StartsArePending \/ Suffered("job fails")

\* Why: a message becomes startable only together with a newer event, so the
\* newest event of a startable message has not been started yet, and a relay
\* that has dealt with it has left its job in the queue.
NewestIsNotRunning ==
  \A m \in Messages, w \in Workers :
    status[m] \in BeginProcessingFrom => ~IsNewestStart(m, running[w])

AddedIsQueued ==
  \A m \in Messages, r \in Relays, i \in Ids :
    /\ status[m] \in BeginProcessingFrom
    /\ IsNewestStart(m, i)
    /\ IsCurrent(r, i)
    /\ relay[r].added
    => i \in jobs

IdleRelaysAddedNothing == \A r \in Relays : relay[r].added => relay[r].batch # {}

IntentInv ==
  StartsArePending /\ NewestIsNotRunning /\ AddedIsQueued /\ IdleRelaysAddedNothing

\* The call was not answered, and that is on record.
Unanswered(a) ==
  /\ attempts[a] # None
  /\ attempts[a].outcome = "FAILED"
  /\ attempts[a].isAmbiguous

Parked(m) ==
  /\ status[m] = "AWAITING_PROVIDER_RESULT"
  /\ \E a \in Attempts : Unanswered(a) /\ attempts[a].msg = m

ExpiryEvents(m) == {i \in Ids : events[i].msg = m /\ events[i].kind = "expiry"}

ExpiriesArePending ==
  \A m \in Messages : Parked(m) =>
    \E i \in ExpiryEvents(m) : i \in Unpublished \/ i \in jobs

\* A message parked on an unanswered call has an expiry event that is still to
\* be relayed, or waiting, unless a job failed or reached another class: nothing
\* else loses it (finalizeProviderAttempt, relayOnce, the expiry processor).
ExpiryIntentKept ==
  ExpiriesArePending \/ Suffered("job fails") \/ Suffered("wrong processor")

\* Why: a message has one unanswered call, so one expiry event; only the expiry
\* job takes it from the queue, and settles the message.
ExpiriesHaveACause ==
  \A m \in Messages : ExpiryEvents(m) # {} =>
    \E a \in Attempts : Unanswered(a) /\ attempts[a].msg = m

AddedExpiryIsQueued ==
  \A m \in Messages, r \in Relays : \A i \in ExpiryEvents(m) :
    Parked(m) /\ IsCurrent(r, i) /\ relay[r].added => i \in jobs

OnlyStartsRun ==
  \A w \in Workers : running[w] # 0 => events[running[w]].kind \in StartKinds

ExpiryInv ==
  /\ ExpiriesArePending
  /\ ExpiriesHaveACause
  /\ AddedExpiryIsQueued
  /\ OnlyStartsRun
  /\ IdleRelaysAddedNothing

\* Every step of the pipeline is a step of the dispatch, or none of its
\* business: what is proved of SmsDispatch holds here.
ImplementsDispatch == Spec

Undecided(m) == status[m] \in {"QUEUED", "RETRY_SCHEDULED", "PROCESSING"}

\* An accepted, retried, recovered or requeued message is not left waiting: it
\* gets to an answer, to a parked call or to the dead letter, unless a job
\* failed (relayOnce, recoverStaleProcessing, processDispatch).
AcceptedIsDecided ==
  \A m \in Messages : Undecided(m) ~> ~Undecided(m) \/ Suffered("job fails")

\* PLAN.md: accepted messages survive worker or Redis downtime.  A failed
\* dispatch job is not tried again and its event is published, so the code does
\* not keep this.
NothingAcceptedIsLost ==
  \A m \in Messages : Undecided(m) ~> ~Undecided(m)

Awaits(m) == status[m] = "AWAITING_PROVIDER_RESULT"

\* A message in AWAITING_PROVIDER_RESULT is finalized by its result or by the
\* delayed expiry (finalizeProviderAttempt, relayOnce, the expiry processor),
\* unless the worker died in the call, or a job failed or reached another class:
\* each of the three breaks it.
ParkedIsFinalized ==
  \A m \in Messages :
    Awaits(m) ~>
      \/ ~Awaits(m)
      \/ \E kind \in {"crash in call", "job fails", "wrong processor"} : Suffered(kind)

\* docs/states.md, finalizeProviderAttempt's comment: a delayed expiry finalizes
\* a message whose result does not arrive, none is parked for ever.  The classes
\* that share the maintenance queue complete each other's jobs, so the code does
\* not keep this.
NothingIsParkedForEver ==
  \A m \in Messages : Awaits(m) ~> ~Awaits(m)

=============================================================================
