-------------------------- MODULE SmsPipelineProofs --------------------------
(***************************************************************************)
(* The pipeline refines the dispatch, with the identity as the refinement  *)
(* mapping, so the theorems of SmsDispatchProofs hold of it; and it loses  *)
(* no intent to dispatch a message as long as no job fails before it has   *)
(* claimed its message.  A message parked on an unanswered call keeps its  *)
(* expiry event until the expiry job settles it, as long as that job       *)
(* reaches its own processor.                                              *)
(***************************************************************************)
EXTENDS SmsPipeline, SmsDispatchProofs

PipelineInv == DeliveryInv /\ PipelineTypeOK

-----------------------------------------------------------------------------
(* Refinement.                                                              *)

\* What a worker does after it has claimed a message is a dispatch step.
LEMMA JobStepIsDispatch ==
  ASSUME NEW w \in Workers, ContinueJob(w) \/ EndJob(w)
  PROVE  Next
  <1>1. FreshAttempt \subseteq Attempts
    BY DEF FreshAttempt
  <1>2. WorkerStep(w)
    BY <1>1 DEF ContinueJob, EndJob, WorkerStep
  <1> QED
    BY <1>2 DEF Next

\* The events of jobs belong to messages.
LEMMA JobsHaveMessages ==
  ASSUME PipelineTypeOK, NEW j \in jobs
  PROVE  j \in Ids /\ events[j].msg \in Messages /\ events[j].kind \in EventKinds
  <1>1. j \in Ids
    BY DEF PipelineTypeOK
  <1>2. events[j] \in [msg : Messages, kind : EventKinds]
    <2> DEFINE Rows == [msg : Messages, kind : EventKinds]
    <2>1. events \in Seq(Rows)
      BY DEF PipelineTypeOK
    <2> HIDE DEF Rows
    <2>2. events[j] \in Rows
      BY <1>1, <2>1 DEF Ids
    <2> QED
      BY <2>2 DEF Rows
  <1> QED
    BY <1>1, <1>2

\* Every step of the pipeline is a step of the dispatch or leaves its state
\* alone: the relay and the queues only decide when a job is delivered.
LEMMA PipelineStepIsDispatch ==
  ASSUME PipelineTypeOK, [PipelineNext]_pipelineVars
  PROVE  [Next]_vars
  <1>1. ASSUME NEW m \in Messages, Accept(m) \/ RecoverAbandoned(m)
        PROVE  Next
    BY <1>1 DEF Accept, RecoverAbandoned, Next, EnvironmentStep, MessageStep
  <1>2. ASSUME NEW r \in Relays, RelayStep(r)
        PROVE  UNCHANGED vars
    BY <1>2 DEF RelayStep, FetchBatch, AddJob, MarkPublished, PublishFails, TickAborts
  <1>3. ASSUME TakeJob
        PROVE  Next \/ UNCHANGED vars
    <2>1. ASSUME NEW j \in jobs, NEW w \in Workers, StartJob(w, j)
          PROVE  Next
      BY <2>1, JobsHaveMessages DEF StartJob, Next, WorkerStep
    <2>2. ASSUME NEW j \in jobs, RunExpiry(j)
          PROVE  Next \/ UNCHANGED vars
      BY <2>2, JobsHaveMessages DEF RunExpiry, Next, EnvironmentStep, MessageStep
    <2>3. ASSUME NEW j \in jobs, SkipJob(j) \/ NotifyDeadLetter(j)
          PROVE  UNCHANGED vars
      BY <2>3 DEF SkipJob, NotifyDeadLetter, ConsumeJob
    <2> QED
      BY <1>3, <2>1, <2>2, <2>3 DEF TakeJob
  <1>4. ASSUME NEW w \in Workers, ContinueJob(w) \/ EndJob(w)
        PROVE  Next
    BY <1>4, JobStepIsDispatch
  <1>5. ASSUME FaultStep
        PROVE  Next \/ UNCHANGED vars
    <2>1. ASSUME NEW j \in jobs, JobFails(j) \/ WrongProcessor(j)
          PROVE  UNCHANGED vars
      BY <2>1 DEF JobFails, WrongProcessor, ConsumeJob
    <2>2. ASSUME NEW w \in Workers, WorkerCrashes(w) \/ JobStalls(w)
          PROVE  Next \/ UNCHANGED vars
      BY <2>2 DEF WorkerCrashes, JobStalls, Next
    <2>3. ASSUME NEW m \in Messages, RecoverFromLiveWorker(m) \/ RequeueDeadLetter(m)
          PROVE  Next
      BY <2>3 DEF RecoverFromLiveWorker, RequeueDeadLetter, Next, EnvironmentStep, MessageStep
    <2> QED
      BY <1>5, <2>1, <2>2, <2>3 DEF FaultStep
  <1>6. ASSUME CallersStep
        PROVE  Next
    BY <1>6 DEF CallersStep, Next, EnvironmentStep
  <1>7. UNCHANGED pipelineVars => UNCHANGED vars
    BY DEF pipelineVars
  <1> QED
    BY <1>1, <1>2, <1>3, <1>4, <1>5, <1>6, <1>7 DEF PipelineNext

-----------------------------------------------------------------------------
(* Type correctness.                                                        *)

LEMMA PipelineTypeInit == PipelineInit => PipelineTypeOK
  BY PipelineAssumption
     DEF PipelineInit, PipelineTypeOK, FaultsOK, Ids, NoTick

\* Recording an event adds one id and changes no other event.
LEMMA RecordType ==
  ASSUME PipelineTypeOK, NEW m \in Messages, NEW k \in EventKinds, Record(m, k)
  PROVE  /\ events' \in Seq([msg : Messages, kind : EventKinds])
         /\ Len(events') = Len(events) + 1
         /\ Ids' = Ids \cup {Len(events) + 1}
         /\ Len(events) \in Nat
         /\ Len(events) + 1 \notin Ids
         /\ \A i \in Ids : events'[i] = events[i]
         /\ events'[Len(events) + 1] = [msg |-> m, kind |-> k]
  BY DEF PipelineTypeOK, Record, Ids

\* The rest of the state keeps its type when the queues are left alone or a
\* worker gives up its job.
LEMMA QueueType ==
  ASSUME PipelineTypeOK, Ids \subseteq Ids',
         events' \in Seq([msg : Messages, kind : EventKinds]),
         published' = published, relay' = relay,
         jobs' \subseteq jobs \cup ({running[w] : w \in Workers} \ {0}),
         \/ running' = running
         \/ \E w \in Workers : running' = [running EXCEPT ![w] = 0],
         FaultsOK'
  PROVE  PipelineTypeOK'
  BY DEF PipelineTypeOK

\* A disturbance is remembered, and none is forgotten.
LEMMA FaultsAreRemembered ==
  ASSUME PipelineTypeOK
  PROVE  /\ \A kind : Fault(kind) => Suffered(kind)'
         /\ [PipelineNext]_pipelineVars => \A kind : Suffered(kind) => Suffered(kind)'
  <1>1. faults \in Seq(Faults)
    BY DEF PipelineTypeOK, FaultsOK
  <1>2. ASSUME NEW kind, Fault(kind)
        PROVE  Suffered(kind)' /\ \A k : Suffered(k) => Suffered(k)'
    BY <1>1, <1>2 DEF Fault, Suffered
  <1>3. ASSUME faults' = faults
        PROVE  \A k : Suffered(k) => Suffered(k)'
    BY <1>3 DEF Suffered
  <1>4. ASSUME PipelineNext
        PROVE  faults' = faults \/ \E kind : Fault(kind)
    BY <1>4 DEF PipelineNext, Accept, RecoverAbandoned, RelayStep, FetchBatch, AddJob,
                MarkPublished, PublishFails, TickAborts, TakeJob, StartJob, SkipJob,
                RunExpiry, NotifyDeadLetter, ContinueJob, EndJob, FaultStep, JobFails,
                WrongProcessor, WorkerCrashes, JobStalls, RecoverFromLiveWorker,
                RequeueDeadLetter, CallersStep
  <1>5. UNCHANGED pipelineVars => faults' = faults
    BY DEF pipelineVars
  <1> QED
    BY <1>2, <1>3, <1>4, <1>5

LEMMA FaultType ==
  ASSUME PipelineTypeOK, NEW k, Fault(k)
  PROVE  FaultsOK'
  BY PipelineAssumption DEF PipelineTypeOK, FaultsOK, Fault

\* A relay's tick after one of its two fields changed.
LEMMA TickRecords ==
  ASSUME NEW S, NEW t \in [batch : S, added : BOOLEAN], NEW b, NEW d
  PROVE  /\ [t EXCEPT !.batch = b] = [batch |-> b, added |-> t.added]
         /\ [t EXCEPT !.added = d] = [batch |-> t.batch, added |-> d]
  OBVIOUS

LEMMA PipelineTypeStep ==
  ASSUME PipelineInv, [PipelineNext]_pipelineVars
  PROVE  PipelineTypeOK'
  <1> USE DEF PipelineInv
  <1>0. FaultsOK /\ (faults' = faults => FaultsOK')
    BY DEF PipelineTypeOK, FaultsOK
  <1>1. ASSUME NEW m \in Messages, NEW k \in EventKinds, Record(m, k),
               published' = published, relay' = relay, jobs' = jobs,
               \/ running' = running
               \/ \E w \in Workers : running' = [running EXCEPT ![w] = 0],
               FaultsOK'
        PROVE  PipelineTypeOK'
    BY <1>1, RecordType, QueueType
  <1>2. ASSUME events' = events,
               published' = published, relay' = relay,
               jobs' \subseteq jobs \cup ({running[w] : w \in Workers} \ {0}),
               \/ running' = running
               \/ \E w \in Workers : running' = [running EXCEPT ![w] = 0],
               FaultsOK'
        PROVE  PipelineTypeOK'
    <2>1. Ids' = Ids /\ events' \in Seq([msg : Messages, kind : EventKinds])
      BY <1>2 DEF Ids, PipelineTypeOK
    <2> QED
      BY <1>2, <2>1, QueueType
  <1>3. ASSUME NEW m \in Messages, Accept(m) \/ RecoverAbandoned(m)
        PROVE  PipelineTypeOK'
    BY <1>0, <1>1, <1>3 DEF Accept, RecoverAbandoned, queueVars, EventKinds, StartKinds
  <1>4. ASSUME NEW r \in Relays, RelayStep(r)
        PROVE  PipelineTypeOK'
    <2>1. /\ events' = events /\ Ids' = Ids
          /\ jobs' \subseteq jobs \cup Ids
          /\ published' \subseteq published \cup Ids
          /\ running' = running /\ faults' = faults
      BY <1>4 DEF RelayStep, FetchBatch, AddJob, MarkPublished, PublishFails, TickAborts, Ids
    <2>2. \E b \in SUBSET Ids, d \in BOOLEAN :
            relay' = [relay EXCEPT ![r] = [batch |-> b, added |-> d]]
      <3>0. relay[r] \in [batch : SUBSET Ids, added : BOOLEAN]
        BY DEF PipelineTypeOK
      <3>1. relay[r] = [batch |-> relay[r].batch, added |-> relay[r].added]
            /\ relay[r].batch \subseteq Ids /\ relay[r].added \in BOOLEAN
        BY <3>0
      <3>2. CASE FetchBatch(r)
        <4> DEFINE b == {i \in Unpublished :
                           Cardinality({k \in Unpublished : k <= i}) <= BatchSize}
        <4>1. b \subseteq Ids
          BY DEF Unpublished
        <4>2. relay' = [relay EXCEPT ![r].batch = b]
          BY <3>2 DEF FetchBatch
        <4>3. relay' = [relay EXCEPT ![r] = [batch |-> b, added |-> relay[r].added]]
          <5>1. [relay[r] EXCEPT !.batch = b] = [batch |-> b, added |-> relay[r].added]
            BY <3>0, TickRecords
          <5> QED
            BY <4>2, <5>1
        <4> HIDE DEF b
        <4> QED
          BY <3>1, <4>1, <4>3
      <3>3. ASSUME NEW i \in Ids, AddJob(r, i)
            PROVE  relay' = [relay EXCEPT ![r] = [batch |-> relay[r].batch, added |-> TRUE]]
        <4>1. [relay[r] EXCEPT !.added = TRUE] = [batch |-> relay[r].batch, added |-> TRUE]
          BY <3>0, TickRecords
        <4> QED
          BY <3>3, <4>1 DEF AddJob
      <3>4. ASSUME NEW i \in Ids, MarkPublished(r, i) \/ PublishFails(r, i)
            PROVE  relay' = [relay EXCEPT ![r] = [batch |-> relay[r].batch \ {i}, added |-> FALSE]]
        BY <3>4 DEF MarkPublished, PublishFails, After
      <3>5. CASE TickAborts(r)
        BY <3>5 DEF TickAborts, NoTick
      <3> QED
        BY <1>4, <3>1, <3>2, <3>3, <3>4, <3>5 DEF RelayStep
    <2>3. relay' \in [Relays -> [batch : SUBSET Ids', added : BOOLEAN]]
      BY <2>1, <2>2 DEF PipelineTypeOK
    <2> QED
      BY <1>0, <2>1, <2>3 DEF PipelineTypeOK
  <1>5. ASSUME NEW j \in jobs, ConsumeJob(j), FaultsOK'
        PROVE  PipelineTypeOK'
    BY <1>2, <1>5 DEF ConsumeJob
  <1>6. ASSUME TakeJob
        PROVE  PipelineTypeOK'
    <2>1. ASSUME NEW j \in jobs, NEW w \in Workers, StartJob(w, j)
          PROVE  PipelineTypeOK'
      BY <1>0, <2>1 DEF StartJob, PipelineTypeOK, Ids
    <2>2. ASSUME NEW j \in jobs, RunExpiry(j)
          PROVE  PipelineTypeOK'
      BY <1>0, <1>2, <2>2 DEF RunExpiry
    <2>3. ASSUME NEW j \in jobs, SkipJob(j) \/ NotifyDeadLetter(j)
          PROVE  PipelineTypeOK'
      BY <1>0, <1>5, <2>3 DEF SkipJob, NotifyDeadLetter
    <2> QED
      BY <1>6, <2>1, <2>2, <2>3 DEF TakeJob
  <1>7. ASSUME NEW w \in Workers, ContinueJob(w)
        PROVE  PipelineTypeOK'
    BY <1>0, <1>2, <1>7 DEF ContinueJob, queueVars
  <1>8. ASSUME NEW w \in Workers, EndJob(w)
        PROVE  PipelineTypeOK'
    <2>1. \/ UNCHANGED events
          \/ Msg(w) \in Messages /\ \E k \in EventKinds : Record(Msg(w), k)
      BY <1>8 DEF EndJob, FinalizeAmbiguous, ScheduleRetry, MarkFatalFailure,
                  DeliveryInv, CallsAreOwned, Msg, EventKinds, StartKinds
    <2>2. /\ running' = [running EXCEPT ![w] = 0]
          /\ published' = published /\ jobs' = jobs /\ relay' = relay /\ faults' = faults
      BY <1>8 DEF EndJob
    <2> QED
      BY <1>0, <1>1, <1>2, <2>1, <2>2
  <1>9. ASSUME FaultStep
        PROVE  PipelineTypeOK'
    <2>1. ASSUME NEW j \in jobs, JobFails(j) \/ WrongProcessor(j)
          PROVE  PipelineTypeOK'
      BY <1>5, <2>1, FaultType DEF JobFails, WrongProcessor
    <2>2. ASSUME NEW w \in Workers, WorkerCrashes(w) \/ JobStalls(w)
          PROVE  PipelineTypeOK'
      <3>1. FaultsOK'
        BY <2>2, FaultType DEF WorkerCrashes, JobStalls
      <3>2. jobs' \subseteq jobs \cup ({running[v] : v \in Workers} \ {0})
        BY <2>2 DEF WorkerCrashes, JobStalls, Redelivered
      <3> QED
        BY <1>2, <2>2, <3>1, <3>2 DEF WorkerCrashes, JobStalls
    <2>3. ASSUME NEW m \in Messages, RecoverFromLiveWorker(m) \/ RequeueDeadLetter(m)
          PROVE  PipelineTypeOK'
      BY <1>1, <2>3, FaultType
         DEF RecoverFromLiveWorker, RequeueDeadLetter, queueVars, EventKinds, StartKinds
    <2> QED
      BY <1>9, <2>1, <2>2, <2>3 DEF FaultStep
  <1>10. ASSUME CallersStep \/ UNCHANGED pipelineVars
         PROVE  PipelineTypeOK'
    BY <1>0, <1>2, <1>10 DEF CallersStep, pipelineVars, queueVars
  <1> QED
    BY <1>3, <1>4, <1>6, <1>7, <1>8, <1>9, <1>10 DEF PipelineNext

\* The dispatch keeps its inductive invariant inside the pipeline.
LEMMA PipelineInvariant == PipelineSpec => []PipelineInv
  <1>1. PipelineInit => PipelineInv
    BY PipelineTypeInit, TypeInit, DeliveryInit DEF PipelineInit, PipelineInv, DeliveryInv
  <1>2. PipelineInv /\ [PipelineNext]_pipelineVars => PipelineInv'
    BY PipelineTypeStep, PipelineStepIsDispatch, DeliveryStep DEF PipelineInv
  <1> QED
    BY <1>1, <1>2, PTL DEF PipelineSpec

\* Events, jobs, relays and faults keep their types.
THEOREM PipelineTypeCorrect == PipelineSpec => []PipelineTypeOK
  BY PipelineInvariant, PTL DEF PipelineInv

\* With the outbox, the relay and the queues as state, the system is still a
\* behaviour of SmsDispatch: each invariant proved there holds here.
THEOREM PipelineImplementsDispatch == PipelineSpec => ImplementsDispatch
  <1>1. PipelineInit => Init
    BY DEF PipelineInit
  <1>2. PipelineInv /\ [PipelineNext]_pipelineVars => [Next]_vars
    BY PipelineStepIsDispatch DEF PipelineInv
  <1> QED
    BY <1>1, <1>2, PipelineInvariant, PTL DEF PipelineSpec, ImplementsDispatch, Spec

\* A duplicated, redelivered or late job makes no provider take a message twice: only
\* a response that breaks off can.
THEOREM PipelineTakesAMessageOnce == PipelineSpec => []OnlyCutShortCallsDuplicate
  BY PipelineImplementsDispatch, ProvidersTakeAMessageOnce DEF ImplementsDispatch

\* Nor does it change what callers, operators and the database are promised.
THEOREM PipelineKeepsPromises ==
  PipelineSpec =>
    /\ [](OpenAttemptBlocksDispatch /\ SentIsCorrelated /\ OneResolutionPerMessage
          /\ IdsAreSettled)
    /\ ResolutionsImmutable
    /\ ImplementsStatusSpec
    /\ KeepsPromise
  BY PipelineImplementsDispatch, OpenAttemptsBlockDispatch, SentMessagesAreCorrelated,
     MessagesAreResolvedOnce, OnlySettledMessagesCarryIds, ResolutionsNeverChange,
     RepositoryImplementsStatusSpec, DispatchKeepsPromise, PTL
  DEF ImplementsDispatch

-----------------------------------------------------------------------------
(* No intent to dispatch a message is lost.                                 *)

Startable(m) == status[m] \in BeginProcessingFrom

\* A recorded event becomes the newest start event of its message, if it starts
\* one; for the other messages nothing changes.
LEMMA NewestAfterRecord ==
  ASSUME PipelineTypeOK, NEW n \in Messages, NEW k \in EventKinds, Record(n, k),
         NEW last \in Nat, last = Len(events) + 1
  PROVE  /\ \A m \in Messages, i \in Ids : m # n \/ k \notin StartKinds =>
              (IsNewestStart(m, i)' <=> IsNewestStart(m, i))
         /\ \A m \in Messages : m # n \/ k \notin StartKinds =>
              ~IsNewestStart(m, last)'
         /\ k \in StartKinds =>
              \A i \in Ids' : IsNewestStart(n, i)' <=> i = last
  <1>1. Ids' = Ids \cup {last} /\ last \notin Ids
    BY RecordType
  <1>2. \A i \in Ids : events'[i] = events[i]
    BY RecordType
  <1>3. \A i \in Ids : i \in Nat /\ last > i
    <2>1. Len(events) \in Nat
      BY RecordType
    <2> QED
      BY <2>1 DEF Ids
  <1>4. events'[last].msg = n /\ events'[last].kind = k
    <2>1. events'[last] = [msg |-> n, kind |-> k]
      BY RecordType
    <2> QED
      BY <2>1
  <1>5. \A m \in Messages :
          StartEvents(m)' = IF m = n /\ k \in StartKinds
                            THEN StartEvents(m) \cup {last} ELSE StartEvents(m)
    <2>1. \A m \in Messages :
            StartEvents(m)' = {i \in Ids' : events'[i].msg = m /\ events'[i].kind \in StartKinds}
      BY DEF StartEvents
    <2> QED
      BY <2>1, <1>1, <1>2, <1>4 DEF StartEvents
  <1>6. \A m \in Messages : StartEvents(m) \subseteq Ids
    BY DEF StartEvents
  <1>7. \A m \in Messages : \A i : IsNewestStart(m, i)' <=>
          i \in StartEvents(m)' /\ \A j \in StartEvents(m)' : j <= i
    BY DEF IsNewestStart
  <1>8. \A m \in Messages, i \in Ids : m # n \/ k \notin StartKinds =>
          (IsNewestStart(m, i)' <=> IsNewestStart(m, i))
    BY <1>5, <1>7 DEF IsNewestStart
  <1>9. \A m \in Messages : m # n \/ k \notin StartKinds => ~IsNewestStart(m, last)'
    BY <1>1, <1>5, <1>6, <1>7
  <1>10. k \in StartKinds => \A i \in Ids' : IsNewestStart(n, i)' <=> i = last
    <2>1. k \in StartKinds => StartEvents(n)' = StartEvents(n) \cup {last}
      BY <1>5
    <2> QED
      BY <2>1, <1>1, <1>3, <1>6, <1>7
  <1> QED
    BY <1>8, <1>9, <1>10

\* A message set to a status from which no job starts did not become startable.
LEMMA NotStartable ==
  ASSUME PipelineInv, NEW m \in Messages, NEW s, SetStatus(m, s),
         s \notin BeginProcessingFrom
  PROVE  \A x \in Messages : Startable(x)' => Startable(x)
  BY DEF PipelineInv, DeliveryInv, TypeOK, SetStatus, Startable, BeginProcessingFrom

\* An intent is kept by a step that records an event, provided only its message
\* may become startable.
LEMMA RecordKeepsIntents ==
  ASSUME PipelineTypeOK, PipelineTypeOK', IntentInv,
         NEW n \in Messages, NEW k \in EventKinds, Record(n, k),
         \A m \in Messages : Startable(m)' => Startable(m) \/ (m = n /\ k \in StartKinds),
         published' = published, relay' = relay, jobs' = jobs,
         \A w \in Workers : running'[w] \in {running[w], 0}
  PROVE  IntentInv'
  <1> USE DEF Startable
  <1>1. /\ Ids' = Ids \cup {Len(events) + 1}
        /\ Len(events) + 1 \notin Ids
    BY RecordType
  <1>2. published \subseteq Ids /\ jobs \subseteq Ids
        /\ \A w \in Workers : running[w] \in Ids \cup {0}
        /\ \A r \in Relays : relay[r].batch \subseteq Ids
    BY DEF PipelineTypeOK
  <1>3. PICK last \in Nat : last = Len(events) + 1
    BY RecordType
  <1>4. ASSUME NEW m \in Messages, Startable(m)', m # n \/ k \notin StartKinds
        PROVE  /\ Startable(m)
               /\ \A i \in Ids : IsNewestStart(m, i)' <=> IsNewestStart(m, i)
               /\ ~IsNewestStart(m, last)'
    BY <1>3, <1>4, NewestAfterRecord
  <1>5. ASSUME k \in StartKinds
        PROVE  \A i \in Ids' : IsNewestStart(n, i)' <=> i = last
    BY <1>3, <1>5, NewestAfterRecord
  <1>6. StartsArePending'
    <2> SUFFICES ASSUME NEW m \in Messages, Startable(m)'
                 PROVE  \E i \in Ids' : IsNewestStart(m, i)' /\ (i \notin published \/ i \in jobs)
      BY <1>1 DEF StartsArePending, Unpublished
    <2>1. CASE m = n /\ k \in StartKinds
      BY <1>1, <1>2, <1>3, <1>5, <2>1
    <2>2. CASE m # n \/ k \notin StartKinds
      BY <1>1, <1>4, <2>2 DEF IntentInv, StartsArePending, Unpublished
    <2> QED
      BY <2>1, <2>2
  <1>7. NewestIsNotRunning'
    <2> SUFFICES ASSUME NEW m \in Messages, NEW w \in Workers, NEW i, i = running'[w],
                        Startable(m)', IsNewestStart(m, i)'
                 PROVE  FALSE
      BY DEF NewestIsNotRunning, IsNewestStart
    <2>1. i \in Ids' /\ i \in Ids \cup {0}
      BY <1>2 DEF IsNewestStart, StartEvents
    <2>2. i \in Ids /\ i = running[w]
      BY <1>1, <1>2, <2>1 DEF Ids
    <2>3. m # n \/ k \notin StartKinds
      BY <1>1, <1>3, <1>5, <2>1, <2>2
    <2> QED
      BY <1>4, <2>2, <2>3 DEF IntentInv, NewestIsNotRunning
  <1>8. AddedIsQueued'
    <2> SUFFICES ASSUME NEW m \in Messages, NEW r \in Relays, NEW i \in Ids',
                        Startable(m)', IsNewestStart(m, i)', IsCurrent(r, i), relay[r].added
                 PROVE  i \in jobs
      BY DEF AddedIsQueued, IsCurrent
    <2>1. i \in Ids
      <3>1. i \in relay[r].batch
        BY DEF IsCurrent
      <3>2. relay[r].batch \subseteq Ids
        BY DEF PipelineTypeOK
      <3> QED
        BY <3>1, <3>2
    <2>2. m # n \/ k \notin StartKinds
      BY <1>1, <1>3, <1>5, <2>1
    <2> QED
      BY <1>4, <2>1, <2>2 DEF IntentInv, AddedIsQueued
  <1>9. IdleRelaysAddedNothing'
    BY DEF IntentInv, IdleRelaysAddedNothing
  <1> QED
    BY <1>6, <1>7, <1>8, <1>9 DEF IntentInv

\* The same for a step that records nothing: it makes no message startable, and
\* takes from the queue no start event of a message that still is.
LEMMA QuietStepKeepsIntents ==
  ASSUME PipelineTypeOK, IntentInv, events' = events,
         \A m \in Messages : Startable(m)' => Startable(m),
         published' = published, relay' = relay,
         \A m \in Messages, i \in jobs : Startable(m)' /\ i \in StartEvents(m) => i \in jobs',
         \A m \in Messages, w \in Workers :
           Startable(m)' => running'[w] \in {running[w], 0} \/ running'[w] \notin StartEvents(m)
  PROVE  IntentInv'
  <1>1. Ids' = Ids /\ 0 \notin Ids
    BY DEF Ids
  <1>2. \A m \in Messages : StartEvents(m)' = StartEvents(m) /\ StartEvents(m) \subseteq Ids
    BY <1>1 DEF StartEvents
  <1>3. \A m \in Messages : \A i : IsNewestStart(m, i)' <=> IsNewestStart(m, i)
    BY <1>2 DEF IsNewestStart
  <1>4. StartsArePending'
    <2> SUFFICES ASSUME NEW m \in Messages, Startable(m)'
                 PROVE  \E i \in Ids : IsNewestStart(m, i) /\ (i \notin published \/ i \in jobs')
      BY <1>1, <1>3 DEF StartsArePending, Unpublished, Startable
    <2>1. PICK i \in Ids : IsNewestStart(m, i) /\ (i \notin published \/ i \in jobs)
      BY DEF IntentInv, StartsArePending, Unpublished, Startable
    <2> QED
      BY <2>1 DEF IsNewestStart
  <1>5. NewestIsNotRunning'
    <2> SUFFICES ASSUME NEW m \in Messages, NEW w \in Workers, Startable(m)',
                        IsNewestStart(m, running'[w])
                 PROVE  FALSE
      BY <1>2 DEF NewestIsNotRunning, IsNewestStart, Startable
    <2> QED
      BY <1>1, <1>2 DEF IntentInv, NewestIsNotRunning, IsNewestStart, Startable
  <1>6. AddedIsQueued'
    <2> SUFFICES ASSUME NEW m \in Messages, NEW r \in Relays, NEW i \in Ids,
                        Startable(m)', IsNewestStart(m, i), IsCurrent(r, i), relay[r].added
                 PROVE  i \in jobs'
      BY <1>1, <1>3 DEF AddedIsQueued, IsCurrent, Startable
    <2> QED
      BY DEF IntentInv, AddedIsQueued, IsNewestStart, Startable
  <1>7. IdleRelaysAddedNothing'
    BY DEF IntentInv, IdleRelaysAddedNothing
  <1> QED
    BY <1>4, <1>5, <1>6, <1>7 DEF IntentInv

\* A relay's own tick: it marks only the event it has added, and an event it
\* has added is the one it has come to.
LEMMA RelayTick ==
  ASSUME PipelineTypeOK, IdleRelaysAddedNothing, NEW r \in Relays, RelayStep(r)
  PROVE  /\ UNCHANGED <<vars, events, running>> /\ jobs \subseteq jobs'
         /\ \A i \in published' \ published : IsCurrent(r, i) /\ relay[r].added
         /\ \A q \in Relays \ {r} : relay'[q] = relay[q]
         /\ relay'[r].added =>
              \E i \in Ids : /\ AddJob(r, i) /\ i \in relay[r].batch
                             /\ relay'[r].batch = relay[r].batch
  <1>1. UNCHANGED <<vars, events, running>> /\ jobs \subseteq jobs'
    BY DEF RelayStep, FetchBatch, AddJob, MarkPublished, PublishFails, TickAborts
  <1>2. \A i \in published' \ published : IsCurrent(r, i) /\ relay[r].added
    BY DEF RelayStep, FetchBatch, AddJob, MarkPublished, PublishFails, TickAborts
  <1>3. relay \in [Relays -> [batch : SUBSET Ids, added : BOOLEAN]]
    BY DEF PipelineTypeOK
  <1>4. relay[r] \in [batch : SUBSET Ids, added : BOOLEAN]
    BY <1>3
  <1>5. CASE FetchBatch(r)
    <2>1. ~relay[r].added
      BY <1>5 DEF FetchBatch, IdleRelaysAddedNothing
    <2>2. relay'[r].added = relay[r].added /\ \A q \in Relays \ {r} : relay'[q] = relay[q]
      BY <1>3, <1>4, <1>5 DEF FetchBatch
    <2> QED
      BY <1>1, <1>2, <2>1, <2>2
  <1>6. ASSUME NEW i \in Ids, AddJob(r, i)
        PROVE  /\ i \in relay[r].batch /\ relay'[r].batch = relay[r].batch
               /\ \A q \in Relays \ {r} : relay'[q] = relay[q]
    BY <1>3, <1>4, <1>6 DEF AddJob, IsCurrent
  <1>7. ASSUME NEW i \in Ids, MarkPublished(r, i) \/ PublishFails(r, i)
        PROVE  ~relay'[r].added /\ \A q \in Relays \ {r} : relay'[q] = relay[q]
    BY <1>3, <1>7 DEF MarkPublished, PublishFails, After
  <1>8. CASE TickAborts(r)
    <2>1. ~relay'[r].added /\ \A q \in Relays \ {r} : relay'[q] = relay[q]
      BY <1>3, <1>8 DEF TickAborts, NoTick
    <2> QED
      BY <1>1, <1>2, <2>1
  <1> QED
    BY <1>1, <1>2, <1>5, <1>6, <1>7, <1>8 DEF RelayStep

\* A relay may be late, fail, die or share its events with others.
LEMMA RelayKeepsIntents ==
  ASSUME PipelineTypeOK, IntentInv, NEW r \in Relays, RelayStep(r)
  PROVE  IntentInv'
  <1>1. /\ status' = status /\ events' = events /\ running' = running
        /\ jobs \subseteq jobs'
    BY DEF RelayStep, FetchBatch, AddJob, MarkPublished, PublishFails, TickAborts, vars
  <1>2. Ids' = Ids /\ \A m \in Messages : \A i : IsNewestStart(m, i)' <=> IsNewestStart(m, i)
    BY <1>1 DEF Ids, StartEvents, IsNewestStart
  <1>3. NewestIsNotRunning'
    BY <1>1, <1>2 DEF IntentInv, NewestIsNotRunning, IsNewestStart, StartEvents, Ids
  <1>4. StartsArePending'
    <2>1. \A i \in published' \ published : IsCurrent(r, i) /\ relay[r].added
      BY DEF RelayStep, FetchBatch, AddJob, MarkPublished, PublishFails, TickAborts
    <2> SUFFICES ASSUME NEW m \in Messages, Startable(m)
                 PROVE  \E i \in Ids : IsNewestStart(m, i) /\ (i \notin published' \/ i \in jobs')
      BY <1>1, <1>2 DEF StartsArePending, Unpublished, Startable
    <2>2. PICK i \in Ids : IsNewestStart(m, i) /\ (i \notin published \/ i \in jobs)
      BY DEF IntentInv, StartsArePending, Unpublished, Startable
    <2> QED
      BY <1>1, <2>1, <2>2 DEF IntentInv, AddedIsQueued, Startable
  <1>5. /\ \A q \in Relays \ {r} : relay'[q] = relay[q]
        /\ relay'[r].added =>
             \E i \in Ids : /\ AddJob(r, i) /\ i \in relay[r].batch
                            /\ relay'[r].batch = relay[r].batch
    BY RelayTick DEF IntentInv
  <1>6. AddedIsQueued'
    <2> SUFFICES ASSUME NEW m \in Messages, NEW q \in Relays, NEW i \in Ids,
                        Startable(m), IsNewestStart(m, i),
                        IsCurrent(q, i)', relay'[q].added
                 PROVE  i \in jobs'
      BY <1>1, <1>2 DEF AddedIsQueued, Startable
    <2>1. CASE q # r
      BY <1>1, <1>5, <2>1 DEF IntentInv, AddedIsQueued, IsCurrent, Startable
    <2>2. CASE q = r
      <3>1. PICK k \in Ids : AddJob(r, k) /\ relay'[r].batch = relay[r].batch
        BY <1>5, <2>2
      <3>2. IsCurrent(r, i) /\ IsCurrent(r, k)
        BY <2>2, <3>1 DEF IsCurrent, AddJob
      <3>3. i = k
        BY <3>2 DEF IsCurrent, Ids
      <3>4. \A w \in Workers : running[w] # i
        BY DEF IntentInv, NewestIsNotRunning, Startable
      <3> QED
        BY <3>1, <3>3, <3>4 DEF AddJob
    <2> QED
      BY <2>1, <2>2
  <1>7. IdleRelaysAddedNothing'
    BY <1>5 DEF IntentInv, IdleRelaysAddedNothing
  <1> QED
    BY <1>3, <1>4, <1>6, <1>7 DEF IntentInv

\* The steps of a worker that make a message startable are its retries.
LEMMA WorkerMakesStartable ==
  ASSUME PipelineInv, NEW w \in Workers, ContinueJob(w) \/ EndJob(w)
  PROVE  \/ events' = events /\ \A m \in Messages : Startable(m)' => Startable(m)
         \/ \E n \in Messages, k \in EventKinds :
              /\ Record(n, k)
              /\ \A m \in Messages : Startable(m)' => Startable(m) \/ (m = n /\ k \in StartKinds)
  <1> DEFINE Quiet == \A m \in Messages : Startable(m)' => Startable(m)
  <1>1. worker[w].pc # "idle" => Msg(w) \in Messages
    BY DEF PipelineInv, DeliveryInv, CallsAreOwned, Msg
  <1>2. \A s : SetStatus(Msg(w), s) /\ Msg(w) \in Messages /\ s \notin BeginProcessingFrom
          => Quiet
    BY NotStartable
  <1>3. status' = status => Quiet
    BY DEF Startable
  <1>4. CASE ContinueJob(w)
    <2>1. FreshAttempt \subseteq Attempts
      BY DEF FreshAttempt
    <2> HIDE DEF Quiet
    <2>2. Quiet
      BY <1>1, <1>2, <1>3, <1>4, <2>1
         DEF ContinueJob, ReserveProviderAttempt, CallProvider, FinalizeFailed,
             ValidateOutcome, PassOver, BeginProcessingFrom
    <2>3. events' = events
      BY <1>4 DEF ContinueJob
    <2> QED
      BY <2>2, <2>3 DEF Quiet
  <1>5. CASE EndJob(w)
    <2> HIDE DEF Quiet
    <2>1. CASE /\ ReservationLost(w) \/ FinalizeLost(w) \/ OutcomeInvalid(w) \/ OutcomeLost(w)
               /\ UNCHANGED events
      <3>1. status' = status
        BY <2>1 DEF ReservationLost, FinalizeLost, OutcomeInvalid, OutcomeLost
      <3> QED
        BY <1>3, <2>1, <3>1 DEF Quiet
    <2>2. CASE FinalizeAccepted(w) /\ UNCHANGED events
      BY <1>1, <1>2, <2>2 DEF FinalizeAccepted, BeginProcessingFrom, Quiet
    <2>3. CASE FinalizeAmbiguous(w) /\ Record(Msg(w), "expiry")
      BY <1>1, <1>3, <2>3 DEF FinalizeAmbiguous, EventKinds, Quiet
    <2>4. CASE MarkFatalFailure(w) /\ Record(Msg(w), "dead-letter")
      BY <1>1, <1>2, <2>4 DEF MarkFatalFailure, BeginProcessingFrom, EventKinds, Quiet
    <2>5. CASE ScheduleRetry(w) /\ Record(Msg(w), "retry")
      <3>1. \A m \in Messages : m # Msg(w) => status'[m] = status[m]
        BY <1>1, <2>5 DEF ScheduleRetry, SetStatus, PipelineInv, DeliveryInv, TypeOK
      <3>2. Msg(w) \in Messages
        BY <1>1, <2>5 DEF ScheduleRetry
      <3> QED
        BY <2>5, <3>1, <3>2 DEF EventKinds, StartKinds, Startable
    <2> QED
      BY <1>5, <2>1, <2>2, <2>3, <2>4, <2>5 DEF EndJob
  <1> QED
    BY <1>4, <1>5

LEMMA CallersMakeNothingStartable ==
  ASSUME PipelineInv, CallersStep, NEW m \in Messages, Startable(m)'
  PROVE  Startable(m)
  BY CallbackIsReport, NotStartable
     DEF CallersStep, ApplyDeliveryReport, ReportStatuses, BeginProcessingFrom

\* A status that becomes startable does so with its event.
LEMMA StartKeepsIntents ==
  ASSUME PipelineInv, PipelineInv', IntentInv, NEW m \in Messages,
         \/ CreateMessage(m) \/ RecoverStaleProcessing(m) \/ ResetForRequeue(m),
         Record(m, "dispatch"), UNCHANGED queueVars
  PROVE  IntentInv'
  <1>1. \A x \in Messages : x # m => status'[x] = status[x]
    BY DEF CreateMessage, RecoverStaleProcessing, ResetForRequeue, SetStatus,
           PipelineInv, DeliveryInv, TypeOK
  <1>2. \A x \in Messages : Startable(x)' => Startable(x) \/ x = m
    BY <1>1 DEF Startable
  <1> QED
    BY <1>2, RecordKeepsIntents DEF PipelineInv, queueVars, EventKinds, StartKinds

LEMMA IntentStep ==
  ASSUME ~Suffered("job fails")',
         PipelineInv, PipelineInv', IntentInv, [PipelineNext]_pipelineVars
  PROVE  IntentInv'
  <1>0. \A m \in Messages : \A i : i \in StartEvents(m) => events[i].msg = m
          /\ events[i].kind \in StartKinds
    BY DEF StartEvents
  <1>1. ASSUME NEW m \in Messages, Accept(m) \/ RecoverAbandoned(m)
        PROVE  IntentInv'
    BY <1>1, StartKeepsIntents DEF Accept, RecoverAbandoned
  <1>2. ASSUME NEW r \in Relays, RelayStep(r)
        PROVE  IntentInv'
    BY <1>2, RelayKeepsIntents DEF PipelineInv
  <1>3. ASSUME NEW j \in jobs, ConsumeJob(j),
               events[j].kind \in StartKinds => ~Startable(events[j].msg)
        PROVE  IntentInv'
    <2>1. \A m \in Messages : Startable(m)' => Startable(m)
      BY <1>3 DEF ConsumeJob, vars, Startable
    <2>2. \A m \in Messages : Startable(m)' => j \notin StartEvents(m)
      BY <1>0, <1>3, <2>1
    <2> QED
      BY <1>3, <2>1, <2>2, QuietStepKeepsIntents DEF ConsumeJob, PipelineInv
  <1>4. ASSUME TakeJob
        PROVE  IntentInv'
    <2>1. ASSUME NEW j \in jobs, NEW w \in Workers, StartJob(w, j)
          PROVE  IntentInv'
      <3>1. PICK n \in Messages : n = events[j].msg
        BY JobsHaveMessages DEF PipelineInv
      <3>2. SetStatus(n, "PROCESSING")
        BY <2>1, <3>1 DEF StartJob, BeginProcessing
      <3>3. \A m \in Messages : Startable(m)' => Startable(m)
        BY <3>2, NotStartable DEF BeginProcessingFrom
      <3>4. ~Startable(n)'
        BY <3>2 DEF SetStatus, Startable, BeginProcessingFrom,
                    PipelineInv, DeliveryInv, TypeOK
      <3>5. \A m \in Messages : Startable(m)' => j \notin StartEvents(m)
        BY <1>0, <3>1, <3>4
      <3> QED
        BY <2>1, <3>3, <3>5, QuietStepKeepsIntents DEF StartJob, PipelineInv, PipelineTypeOK
    <2>2. ASSUME NEW j \in jobs, RunExpiry(j)
          PROVE  IntentInv'
      <3>1. PICK n \in Messages : n = events[j].msg
        BY JobsHaveMessages DEF PipelineInv
      <3>2. status' = status \/ SetStatus(n, "UNDELIVERED")
        BY <2>2, <3>1 DEF RunExpiry, ExpireAmbiguousOutcome, vars
      <3>3. status' = status => \A m \in Messages : Startable(m)' => Startable(m)
        BY DEF Startable
      <3>4. \A m \in Messages : Startable(m)' => Startable(m)
        BY <3>2, <3>3, NotStartable DEF BeginProcessingFrom
      <3>5. \A m \in Messages : j \notin StartEvents(m)
        BY <1>0, <2>2 DEF RunExpiry, StartKinds
      <3> QED
        BY <2>2, <3>4, <3>5, QuietStepKeepsIntents DEF RunExpiry, PipelineInv
    <2>3. ASSUME NEW j \in jobs, SkipJob(j) \/ NotifyDeadLetter(j)
          PROVE  IntentInv'
      BY <1>3, <2>3 DEF SkipJob, NotifyDeadLetter, Startable, StartKinds
    <2> QED
      BY <1>4, <2>1, <2>2, <2>3 DEF TakeJob
  <1>5. ASSUME NEW w \in Workers, ContinueJob(w) \/ EndJob(w)
        PROVE  IntentInv'
    <2>1. /\ published' = published /\ jobs' = jobs /\ relay' = relay
          /\ \A v \in Workers : running'[v] \in {running[v], 0}
      BY <1>5 DEF ContinueJob, EndJob, queueVars, PipelineInv, PipelineTypeOK
    <2> QED
      BY <1>5, <2>1, WorkerMakesStartable, RecordKeepsIntents, QuietStepKeepsIntents
         DEF PipelineInv
  <1>6. ASSUME FaultStep
        PROVE  IntentInv'
    <2>1. ASSUME NEW j \in jobs, JobFails(j) \/ WrongProcessor(j)
          PROVE  IntentInv'
      BY <1>3, <2>1, FaultsAreRemembered DEF JobFails, WrongProcessor, StartKinds, PipelineInv
    <2>2. ASSUME NEW w \in Workers, WorkerCrashes(w) \/ JobStalls(w)
          PROVE  IntentInv'
      <3>1. /\ status' = status /\ events' = events /\ published' = published
            /\ relay' = relay /\ jobs \subseteq jobs'
        BY <2>2 DEF WorkerCrashes, JobStalls, Redelivered, Abandon, vars
      <3>2. \A v \in Workers : running'[v] \in {running[v], 0}
        BY <2>2 DEF WorkerCrashes, JobStalls, PipelineInv, PipelineTypeOK
      <3>3. \A m \in Messages : Startable(m)' => Startable(m)
        BY <3>1 DEF Startable
      <3> QED
        BY <3>1, <3>2, <3>3, QuietStepKeepsIntents DEF PipelineInv
    <2>3. ASSUME NEW m \in Messages, RecoverFromLiveWorker(m) \/ RequeueDeadLetter(m)
          PROVE  IntentInv'
      BY <2>3, StartKeepsIntents DEF RecoverFromLiveWorker, RequeueDeadLetter
    <2> QED
      BY <1>6, <2>1, <2>2, <2>3 DEF FaultStep
  <1>7. CASE CallersStep
    BY <1>7, CallersMakeNothingStartable, QuietStepKeepsIntents
       DEF CallersStep, queueVars, PipelineInv
  <1>8. CASE UNCHANGED pipelineVars
    <2>1. \A m \in Messages : Startable(m)' => Startable(m)
      BY <1>8 DEF pipelineVars, vars, Startable
    <2> QED
      BY <1>8, <2>1, QuietStepKeepsIntents DEF pipelineVars, queueVars, PipelineInv
  <1> QED
    BY <1>1, <1>2, <1>4, <1>5, <1>6, <1>7, <1>8 DEF PipelineNext

\* As long as no job has failed, a message that waits to be dispatched has its
\* newest start event unpublished or waiting as a job: whatever the relays and the
\* workers do, crash or repeat.
THEOREM NoStartIntentIsLost == PipelineSpec => []StartIntentKept
  <1> DEFINE Kept == IntentInv \/ Suffered("job fails")
  <1>1. PipelineInit => IntentInv
    <2> SUFFICES ASSUME PipelineInit PROVE IntentInv
      OBVIOUS
    <2>1. \A m \in Messages : ~Startable(m)
      BY DEF PipelineInit, Init, Startable, BeginProcessingFrom, NoMessage
    <2>2. \A r \in Relays : ~relay[r].added
      BY DEF PipelineInit, NoTick
    <2> QED
      BY <2>1, <2>2 DEF IntentInv, StartsArePending, NewestIsNotRunning, AddedIsQueued,
                        IdleRelaysAddedNothing, Startable
  <1>2. PipelineInv /\ PipelineInv' /\ Kept /\ [PipelineNext]_pipelineVars => Kept'
    BY IntentStep, FaultsAreRemembered DEF PipelineInv
  <1>3. Kept => StartIntentKept
    BY DEF IntentInv, StartIntentKept
  <1>4. PipelineInit => Kept
    BY <1>1
  <1> HIDE DEF Kept
  <1> QED
    BY <1>2, <1>3, <1>4, PipelineInvariant, PTL DEF PipelineSpec

-----------------------------------------------------------------------------
(* Unanswered calls.                                                        *)

\* The environment answers no call.
LEMMA EnvironmentLeavesAttempts == EnvironmentStep => attempts' = attempts
  BY EnvironmentActs
  DEF MessageStep, CreateMessage, RecoverStaleProcessing,
         ExpireAmbiguousOutcome, ResetForRequeue, ApplyDeliveryReport, OperatorStep,
         ValidateResolution, ResolveTwilioAttempt, ResolutionLost

\* An unanswered call is final: nobody writes its attempt again.
LEMMA UnansweredStays ==
  ASSUME DeliveryInv, [Next]_vars, NEW a \in Attempts, Unanswered(a)
  PROVE  attempts'[a] = attempts[a]
  <1>1. ASSUME NEW w \in Workers, NEW b \in Attempts, ReserveProviderAttempt(w, b)
        PROVE  attempts'[a] = attempts[a]
    BY <1>1 DEF ReserveProviderAttempt, Unanswered, DeliveryInv, TypeOK
  <1>2. ASSUME NEW w \in Workers, NEW x, NEW y, CanFinalize(w), FinalizeAttempt(w, x, y)
        PROVE  attempts'[a] = attempts[a]
    <2>1. a # worker[w].attempt
      BY <1>2 DEF CanFinalize, Unanswered
    <2> QED
      BY <1>2, <2>1 DEF FinalizeAttempt, DeliveryInv, TypeOK
  <1>3. ASSUME NEW w \in Workers, WorkerStep(w) \/ Abandon(w)
        PROVE  attempts'[a] = attempts[a]
    BY <1>1, <1>2, <1>3
       DEF WorkerStep, BeginProcessing, ReservationLost, CallProvider, FinalizeAccepted,
           FinalizeAmbiguous, FinalizeFailed, FinalizeLost, ValidateOutcome,
           OutcomeInvalid, ScheduleRetry, MarkFatalFailure, OutcomeLost, Abandon
  <1> QED
    BY <1>3, EnvironmentLeavesAttempts DEF Next, vars

\* A finalized attempt is its old row with another outcome.
LEMMA FinalizedRow ==
  ASSUME DeliveryInv, NEW w \in Workers, InCall(w),
         NEW x \in {"ACCEPTED", "FAILED"}, NEW y \in BOOLEAN, FinalizeAttempt(w, x, y)
  PROVE  /\ worker[w].attempt \in Attempts
         /\ attempts'[worker[w].attempt].outcome = x
         /\ attempts'[worker[w].attempt].isAmbiguous = y
         /\ attempts'[worker[w].attempt].msg = Msg(w)
         /\ attempts'[worker[w].attempt] # None
         /\ \A b \in Attempts : b # worker[w].attempt => attempts'[b] = attempts[b]
  <1>1. PICK a \in Attempts : a = worker[w].attempt
    BY DEF DeliveryInv, CallsAreOwned
  <1>2. attempts[a] \in AttemptRows /\ attempts[a].msg = Msg(w)
    BY <1>1 DEF DeliveryInv, CallsAreOwned, TypeOK, Msg
  <1>3. /\ attempts'[a] = [attempts[a] EXCEPT !.outcome = x, !.isAmbiguous = y]
        /\ \A b \in Attempts : b # a => attempts'[b] = attempts[b]
    BY <1>1, <1>2 DEF FinalizeAttempt, DeliveryInv, TypeOK
  <1>4. /\ attempts'[a] \in AttemptRows /\ attempts'[a].msg = Msg(w)
        /\ attempts'[a].outcome = x /\ attempts'[a].isAmbiguous = y
    BY <1>2, <1>3 DEF AttemptRows
  <1> QED
    BY <1>1, <1>3, <1>4, NoneIsNothing

\* Only an ambiguous outcome leaves a call unanswered.
LEMMA WorkerLeavesUnanswered ==
  ASSUME DeliveryInv, NEW w \in Workers, WorkerStep(w) \/ Abandon(w),
         ~FinalizeAmbiguous(w), NEW a \in Attempts, Unanswered(a)'
  PROVE  Unanswered(a)
  <1>1. CASE attempts' = attempts
    BY <1>1 DEF Unanswered
  <1>2. ASSUME NEW b \in Attempts, ReserveProviderAttempt(w, b)
        PROVE  Unanswered(a)
    <2>1. /\ attempts'[b].outcome = "RESERVED"
          /\ a # b => attempts'[a] = attempts[a]
      BY <1>2 DEF ReserveProviderAttempt, DeliveryInv, TypeOK
    <2> QED
      BY <2>1 DEF Unanswered
  <1>3. CASE FinalizeAccepted(w)
    BY <1>3, FinalizedRow DEF FinalizeAccepted, InCall, Unanswered
  <1>4. CASE FinalizeFailed(w)
    BY <1>4, FinalizedRow DEF FinalizeFailed, InCall, Unanswered
  <1> QED
    BY <1>1, <1>2, <1>3, <1>4
       DEF WorkerStep, BeginProcessing, ReservationLost, CallProvider, FinalizeLost,
           ValidateOutcome, OutcomeInvalid, ScheduleRetry, MarkFatalFailure,
           OutcomeLost, Abandon

\* While no call becomes unanswered, no message becomes parked: an unanswered
\* call has put its message out of dispatch, from where no step leads back to
\* AWAITING_PROVIDER_RESULT.
LEMMA ParkedBefore ==
  ASSUME DeliveryInv, [Next]_vars, NEW m \in Messages, Parked(m)',
         \A a \in Attempts : Unanswered(a)' => Unanswered(a)
  PROVE  Parked(m)
  <1>1. PICK a \in Attempts : Unanswered(a)' /\ attempts'[a].msg = m
    BY DEF Parked
  <1>2. Unanswered(a) /\ attempts[a].msg = m
    BY <1>1, AttemptsKeepTheirMessage DEF Unanswered
  <1>3. status[m] \in OutOfDispatch
    BY <1>2 DEF DeliveryInv, OpenAttemptBlocksDispatch, Open, Unanswered
  <1>4. [StatusMachine!Next]_status
    BY WorkerFollowsTable, EnvironmentFollowsTable DEF Next, DeliveryInv, vars
  <1>5. status \in [Messages -> Statuses \cup {NoMessage}]
    BY DEF DeliveryInv, TypeOK
  <1>6. status'[m] = "AWAITING_PROVIDER_RESULT"
    BY DEF Parked
  <1>7. status[m] = "AWAITING_PROVIDER_RESULT"
    BY <1>3, <1>4, <1>5, <1>6
       DEF OutOfDispatch, StatusMachine!Next, StatusMachine!Create, StatusMachine!Advance,
           StatusMachine!Requeue, StatusMachine!Outgoing, StatusMachine!Statuses,
           StatusMachine!TransitionTable
  <1> QED
    BY <1>2, <1>7 DEF Parked

-----------------------------------------------------------------------------
(* Expiry events.                                                           *)

\* A recorded event joins the expiry events of its message, if it is one.
LEMMA ExpiryAfterRecord ==
  ASSUME PipelineTypeOK, NEW n \in Messages, NEW k \in EventKinds, Record(n, k),
         NEW last \in Nat, last = Len(events) + 1
  PROVE  /\ Ids \subseteq Ids' /\ last \notin Ids /\ last \in Ids'
         /\ \A i \in Ids : events'[i] = events[i]
         /\ \A m \in Messages :
              ExpiryEvents(m)' = IF m = n /\ k = "expiry"
                                 THEN ExpiryEvents(m) \cup {last} ELSE ExpiryEvents(m)
  <1>1. /\ Ids' = Ids \cup {last} /\ last \notin Ids
        /\ \A i \in Ids : events'[i] = events[i]
    BY RecordType
  <1>2. events'[last].msg = n /\ events'[last].kind = k
    <2>1. events'[last] = [msg |-> n, kind |-> k]
      BY RecordType
    <2> QED
      BY <2>1
  <1>3. \A m \in Messages :
          ExpiryEvents(m)' = {i \in Ids' : events'[i].msg = m /\ events'[i].kind = "expiry"}
    BY DEF ExpiryEvents
  <1> QED
    BY <1>1, <1>2, <1>3 DEF ExpiryEvents

\* A step that leaves no call unanswered keeps the expiries, if it takes from
\* the queue none whose message stays parked.
LEMMA QuietKeepsExpiry ==
  ASSUME PipelineInv, ExpiryInv, [Next]_vars,
         \A a \in Attempts : Unanswered(a)' => Unanswered(a),
         Ids \subseteq Ids', \A i \in Ids : events'[i] = events[i],
         \A m \in Messages : ExpiryEvents(m)' = ExpiryEvents(m),
         published' = published, relay' = relay,
         \A m \in Messages : \A i \in ExpiryEvents(m) :
           Parked(m)' /\ i \in jobs => i \in jobs',
         \A w \in Workers : \/ running'[w] \in {running[w], 0}
                            \/ running'[w] \in Ids /\ events[running'[w]].kind \in StartKinds
  PROVE  ExpiryInv'
  <1>1. \A m \in Messages : Parked(m)' => Parked(m)
    BY ParkedBefore DEF PipelineInv
  <1>2. \A m \in Messages : ExpiryEvents(m) \subseteq Ids
    BY DEF ExpiryEvents
  <1>3. ExpiriesArePending'
    <2> SUFFICES ASSUME NEW m \in Messages, Parked(m)'
                 PROVE  \E i \in ExpiryEvents(m) : i \notin published \/ i \in jobs'
      BY <1>2 DEF ExpiriesArePending, Unpublished
    <2>1. PICK i \in ExpiryEvents(m) : i \notin published \/ i \in jobs
      BY <1>1 DEF ExpiryInv, ExpiriesArePending, Unpublished
    <2> QED
      BY <2>1
  <1>4. ExpiriesHaveACause'
    <2> SUFFICES ASSUME NEW m \in Messages, ExpiryEvents(m) # {}
                 PROVE  \E a \in Attempts : Unanswered(a)' /\ attempts'[a].msg = m
      BY DEF ExpiriesHaveACause
    <2>1. PICK a \in Attempts : Unanswered(a) /\ attempts[a].msg = m
      BY DEF ExpiryInv, ExpiriesHaveACause
    <2> QED
      BY <2>1, UnansweredStays DEF Unanswered, PipelineInv
  <1>5. AddedExpiryIsQueued'
    <2> SUFFICES ASSUME NEW m \in Messages, NEW r \in Relays, NEW i \in ExpiryEvents(m),
                        Parked(m)', IsCurrent(r, i), relay[r].added
                 PROVE  i \in jobs'
      BY DEF AddedExpiryIsQueued, IsCurrent
    <2> QED
      BY <1>1 DEF ExpiryInv, AddedExpiryIsQueued
  <1>6. OnlyStartsRun'
    BY DEF ExpiryInv, OnlyStartsRun, PipelineInv, PipelineTypeOK
  <1>7. IdleRelaysAddedNothing'
    BY DEF ExpiryInv, IdleRelaysAddedNothing
  <1> QED
    BY <1>3, <1>4, <1>5, <1>6, <1>7 DEF ExpiryInv

\* The same for a step that records an event other than an expiry.
LEMMA RecordKeepsExpiry ==
  ASSUME PipelineInv, ExpiryInv, [Next]_vars,
         \A a \in Attempts : Unanswered(a)' => Unanswered(a),
         NEW n \in Messages, NEW k \in EventKinds \ {"expiry"}, Record(n, k),
         published' = published, relay' = relay, jobs' = jobs,
         \A w \in Workers : running'[w] \in {running[w], 0}
  PROVE  ExpiryInv'
  <1>1. PICK last \in Nat : last = Len(events) + 1
    BY RecordType DEF PipelineInv
  <1>2. /\ Ids \subseteq Ids' /\ \A i \in Ids : events'[i] = events[i]
        /\ \A m \in Messages : ExpiryEvents(m)' = ExpiryEvents(m)
    BY <1>1, ExpiryAfterRecord DEF PipelineInv
  <1> QED
    BY <1>2, QuietKeepsExpiry

\* The ambiguous outcome parks its message and commits the message's only
\* expiry event.
LEMMA AmbiguousKeepsExpiry ==
  ASSUME PipelineInv, ExpiryInv, [Next]_vars,
         NEW w \in Workers, FinalizeAmbiguous(w), Record(Msg(w), "expiry"),
         published' = published, relay' = relay, jobs' = jobs,
         \A v \in Workers : running'[v] \in {running[v], 0}
  PROVE  ExpiryInv'
  <1>1. InCall(w)
    BY DEF FinalizeAmbiguous, InCall
  <1>2. PICK a \in Attempts : a = worker[w].attempt
    BY <1>1 DEF PipelineInv, DeliveryInv, CallsAreOwned
  <1>3. PICK n \in Messages : n = Msg(w)
    BY <1>1 DEF PipelineInv, DeliveryInv, CallsAreOwned, InCall, Msg
  <1>4. PICK last \in Nat : last = Len(events) + 1
    BY RecordType, <1>3 DEF PipelineInv, EventKinds
  <1>5. /\ attempts'[a] # None /\ attempts'[a].msg = n
        /\ Unanswered(a)'
        /\ \A b \in Attempts : b # a => attempts'[b] = attempts[b]
    BY <1>1, <1>2, <1>3, FinalizedRow DEF FinalizeAmbiguous, Unanswered, PipelineInv
  <1>6. \A b \in Attempts : Unanswered(b) => attempts[b].msg # n
    <2>1. Open(a) /\ attempts[a].msg = n /\ attempts[a].outcome = "RESERVED"
      BY <1>1, <1>2, <1>3 DEF PipelineInv, DeliveryInv, CallsAreOwned, Open, Msg
    <2>2. \A b \in Attempts : Unanswered(b) => Open(b)
      BY DEF Unanswered, Open
    <2> QED
      BY <2>1, <2>2 DEF PipelineInv, DeliveryInv, OpenAttemptBlocksDispatch, Unanswered
  <1>7. ExpiryEvents(n) = {}
    BY <1>6 DEF ExpiryInv, ExpiriesHaveACause
  <1>8. /\ Ids \subseteq Ids' /\ last \notin Ids /\ last \in Ids'
        /\ \A i \in Ids : events'[i] = events[i]
        /\ ExpiryEvents(n)' = {last}
        /\ \A m \in Messages \ {n} : ExpiryEvents(m)' = ExpiryEvents(m)
    BY <1>3, <1>4, <1>7, ExpiryAfterRecord DEF PipelineInv, EventKinds
  <1>9. \A m \in Messages \ {n} : Parked(m)' => Parked(m)
    <2>1. status' = status
      BY DEF FinalizeAmbiguous
    <2> QED
      BY <1>5, <2>1 DEF Parked, Unanswered
  <1>10. /\ published \subseteq Ids
         /\ \A r \in Relays : relay[r].batch \subseteq Ids
         /\ \A v \in Workers : running[v] \in Ids \cup {0}
    BY DEF PipelineInv, PipelineTypeOK
  <1>11. ExpiriesArePending'
    <2> SUFFICES ASSUME NEW m \in Messages, Parked(m)'
                 PROVE  \E i \in ExpiryEvents(m)' : i \in Ids' \ published \/ i \in jobs
      BY DEF ExpiriesArePending, Unpublished
    <2>1. CASE m = n
      BY <1>8, <1>10, <2>1
    <2>2. CASE m # n
      <3>1. PICK i \in ExpiryEvents(m) : i \notin published \/ i \in jobs
        BY <1>9, <2>2 DEF ExpiryInv, ExpiriesArePending, Unpublished
      <3> QED
        BY <1>8, <2>2, <3>1 DEF ExpiryEvents
    <2> QED
      BY <2>1, <2>2
  <1>12. ExpiriesHaveACause'
    <2> SUFFICES ASSUME NEW m \in Messages, ExpiryEvents(m)' # {}
                 PROVE  \E b \in Attempts : Unanswered(b)' /\ attempts'[b].msg = m
      BY DEF ExpiriesHaveACause
    <2>1. CASE m = n
      BY <1>5, <2>1
    <2>2. CASE m # n
      <3>1. PICK b \in Attempts : Unanswered(b) /\ attempts[b].msg = m
        BY <1>8, <2>2 DEF ExpiryInv, ExpiriesHaveACause
      <3> QED
        BY <3>1, UnansweredStays DEF Unanswered, PipelineInv
    <2> QED
      BY <2>1, <2>2
  <1>13. AddedExpiryIsQueued'
    <2> SUFFICES ASSUME NEW m \in Messages, NEW r \in Relays, NEW i \in ExpiryEvents(m)',
                        Parked(m)', IsCurrent(r, i), relay[r].added
                 PROVE  i \in jobs
      BY DEF AddedExpiryIsQueued, IsCurrent
    <2>1. i \in Ids
      BY <1>10 DEF IsCurrent
    <2> QED
      BY <1>8, <1>9, <2>1 DEF ExpiryInv, AddedExpiryIsQueued
  <1>14. OnlyStartsRun'
    BY <1>8, <1>10 DEF ExpiryInv, OnlyStartsRun
  <1>15. IdleRelaysAddedNothing'
    BY DEF ExpiryInv, IdleRelaysAddedNothing
  <1> QED
    BY <1>11, <1>12, <1>13, <1>14, <1>15 DEF ExpiryInv

\* A relay adds an expiry to the queue, where it cannot be running already, and
\* marks it only then.
LEMMA RelayKeepsExpiry ==
  ASSUME PipelineInv, ExpiryInv, NEW r \in Relays, RelayStep(r)
  PROVE  ExpiryInv'
  <1>1. /\ UNCHANGED <<vars, events, running>> /\ jobs \subseteq jobs'
        /\ \A i \in published' \ published : IsCurrent(r, i) /\ relay[r].added
        /\ \A q \in Relays \ {r} : relay'[q] = relay[q]
        /\ relay'[r].added =>
             \E i \in Ids : /\ AddJob(r, i) /\ i \in relay[r].batch
                            /\ relay'[r].batch = relay[r].batch
    BY RelayTick DEF PipelineInv, ExpiryInv
  <1>2. /\ Ids' = Ids
        /\ \A m \in Messages : ExpiryEvents(m)' = ExpiryEvents(m)
    BY <1>1 DEF Ids, ExpiryEvents
  <1>3. /\ \A a \in Attempts : Unanswered(a)' <=> Unanswered(a)
        /\ \A m \in Messages : Parked(m)' <=> Parked(m)
    BY <1>1 DEF vars, Unanswered, Parked
  <1>4. ExpiriesArePending'
    <2> SUFFICES ASSUME NEW m \in Messages, Parked(m)
                 PROVE  \E i \in ExpiryEvents(m) : i \in Ids \ published' \/ i \in jobs'
      BY <1>2, <1>3 DEF ExpiriesArePending, Unpublished
    <2>1. PICK i \in ExpiryEvents(m) : i \in Ids \ published \/ i \in jobs
      BY DEF ExpiryInv, ExpiriesArePending, Unpublished
    <2> QED
      BY <1>1, <2>1 DEF ExpiryInv, AddedExpiryIsQueued
  <1>5. ExpiriesHaveACause'
    BY <1>1, <1>2, <1>3 DEF ExpiryInv, ExpiriesHaveACause, vars
  <1>6. AddedExpiryIsQueued'
    <2> SUFFICES ASSUME NEW m \in Messages, NEW q \in Relays, NEW i \in ExpiryEvents(m),
                        Parked(m), IsCurrent(q, i)', relay'[q].added
                 PROVE  i \in jobs'
      BY <1>2, <1>3 DEF AddedExpiryIsQueued
    <2>1. CASE q # r
      BY <1>1, <2>1 DEF ExpiryInv, AddedExpiryIsQueued, IsCurrent
    <2>2. CASE q = r
      <3>1. PICK k \in Ids : AddJob(r, k) /\ relay'[r].batch = relay[r].batch
        BY <1>1, <2>2
      <3>2. IsCurrent(r, i) /\ IsCurrent(r, k) /\ i \in Ids
        BY <2>2, <3>1 DEF IsCurrent, AddJob, ExpiryEvents
      <3>3. i = k
        BY <3>2 DEF IsCurrent, Ids
      <3>4. \A w \in Workers : running[w] # i
        BY <3>2 DEF ExpiryInv, OnlyStartsRun, ExpiryEvents, StartKinds, Ids
      <3> QED
        BY <3>1, <3>3, <3>4 DEF AddJob
    <2> QED
      BY <2>1, <2>2
  <1>7. OnlyStartsRun'
    BY <1>1 DEF ExpiryInv, OnlyStartsRun
  <1>8. IdleRelaysAddedNothing'
    BY <1>1 DEF ExpiryInv, IdleRelaysAddedNothing
  <1> QED
    BY <1>4, <1>5, <1>6, <1>7, <1>8 DEF ExpiryInv

\* A job that leaves the queue takes no expiry of a parked message with it.
LEMMA QueueKeepsExpiry ==
  ASSUME PipelineInv, ExpiryInv, [Next]_vars, events' = events, attempts' = attempts,
         published' = published, relay' = relay, NEW j \in jobs, jobs' = jobs \ {j},
         events[j].kind # "expiry" \/ ~Parked(events[j].msg)',
         \A w \in Workers : \/ running'[w] = running[w]
                            \/ running'[w] = j /\ events[j].kind \in StartKinds
  PROVE  ExpiryInv'
  <1>1. /\ Ids' = Ids
        /\ \A m \in Messages : ExpiryEvents(m)' = ExpiryEvents(m)
    BY DEF Ids, ExpiryEvents
  <1>2. \A a \in Attempts : Unanswered(a)' => Unanswered(a)
    BY DEF Unanswered
  <1>3. \A m \in Messages : \A i \in ExpiryEvents(m) :
          Parked(m)' /\ i \in jobs => i \in jobs'
    BY DEF ExpiryEvents
  <1>4. j \in Ids
    BY JobsHaveMessages DEF PipelineInv
  <1> QED
    BY <1>1, <1>2, <1>3, <1>4, QuietKeepsExpiry

LEMMA ExpiryStep ==
  ASSUME ~Suffered("job fails")', ~Suffered("wrong processor")',
         PipelineInv, ExpiryInv, [PipelineNext]_pipelineVars
  PROVE  ExpiryInv'
  <1>0. [Next]_vars
    BY PipelineStepIsDispatch DEF PipelineInv
  <1>1. ASSUME attempts' = attempts
        PROVE  \A a \in Attempts : Unanswered(a)' => Unanswered(a)
    BY <1>1 DEF Unanswered
  <1>2. ASSUME events' = events
        PROVE  /\ Ids \subseteq Ids' /\ \A i \in Ids : events'[i] = events[i]
               /\ \A m \in Messages : ExpiryEvents(m)' = ExpiryEvents(m)
    BY <1>2 DEF Ids, ExpiryEvents
  <1>3. ASSUME NEW m \in Messages, MessageStep(m), Record(m, "dispatch"), UNCHANGED queueVars
        PROVE  ExpiryInv'
    <2>1. attempts' = attempts
      BY <1>3, EnvironmentLeavesAttempts DEF EnvironmentStep
    <2> QED
      BY <1>0, <1>1, <1>3, <2>1, RecordKeepsExpiry DEF queueVars, EventKinds, StartKinds
  <1>4. ASSUME NEW m \in Messages, Accept(m) \/ RecoverAbandoned(m)
        PROVE  ExpiryInv'
    BY <1>3, <1>4 DEF Accept, RecoverAbandoned, MessageStep
  <1>5. ASSUME NEW r \in Relays, RelayStep(r)
        PROVE  ExpiryInv'
    BY <1>5, RelayKeepsExpiry
  <1>6. ASSUME NEW j \in jobs, ConsumeJob(j), events[j].kind # "expiry"
        PROVE  ExpiryInv'
    BY <1>0, <1>6, QueueKeepsExpiry DEF ConsumeJob, vars
  <1>7. ASSUME TakeJob
        PROVE  ExpiryInv'
    <2>1. ASSUME NEW j \in jobs, NEW w \in Workers, StartJob(w, j)
          PROVE  ExpiryInv'
      <3>1. attempts' = attempts /\ events[j].kind \in StartKinds
        BY <2>1 DEF StartJob, BeginProcessing
      <3>2. \A v \in Workers : running'[v] \in {running[v], j}
        BY <2>1 DEF StartJob, PipelineInv, PipelineTypeOK
      <3> QED
        BY <1>0, <2>1, <3>1, <3>2, QueueKeepsExpiry DEF StartJob, StartKinds
    <2>2. ASSUME NEW j \in jobs, RunExpiry(j)
          PROVE  ExpiryInv'
      <3>1. PICK n \in Messages : n = events[j].msg
        BY JobsHaveMessages DEF PipelineInv
      <3>2. attempts' = attempts /\ status'[n] # "AWAITING_PROVIDER_RESULT" /\ events' = events
        BY <2>2, <3>1 DEF RunExpiry, ExpireAmbiguousOutcome, SetStatus, vars,
                          PipelineInv, DeliveryInv, TypeOK
      <3>3. ~Parked(events[j].msg)'
        BY <3>1, <3>2 DEF Parked
      <3> QED
        BY <1>0, <2>2, <3>2, <3>3, QueueKeepsExpiry DEF RunExpiry
    <2>3. ASSUME NEW j \in jobs, SkipJob(j) \/ NotifyDeadLetter(j)
          PROVE  ExpiryInv'
      BY <1>6, <2>3 DEF SkipJob, NotifyDeadLetter, StartKinds
    <2> QED
      BY <1>7, <2>1, <2>2, <2>3 DEF TakeJob
  <1>8. ASSUME NEW w \in Workers, ContinueJob(w)
        PROVE  ExpiryInv'
    <2>1. FreshAttempt \subseteq Attempts
      BY DEF FreshAttempt
    <2>2. WorkerStep(w) /\ ~FinalizeAmbiguous(w)
      BY <1>8, <2>1 DEF ContinueJob, WorkerStep, ReserveProviderAttempt, CallProvider,
                        FinalizeFailed, ValidateOutcome, PassOver, FinalizeAmbiguous
    <2>3. \A a \in Attempts : Unanswered(a)' => Unanswered(a)
      BY <2>2, WorkerLeavesUnanswered DEF PipelineInv
    <2> QED
      BY <1>0, <1>2, <1>8, <2>3, QuietKeepsExpiry DEF ContinueJob, queueVars
  <1>9. ASSUME NEW w \in Workers, EndJob(w)
        PROVE  ExpiryInv'
    <2>1. /\ published' = published /\ jobs' = jobs /\ relay' = relay
          /\ \A v \in Workers : running'[v] \in {running[v], 0}
      BY <1>9 DEF EndJob, PipelineInv, PipelineTypeOK
    <2>2. CASE FinalizeAmbiguous(w)
      <3>1. Record(Msg(w), "expiry")
        BY <1>9, <2>2 DEF EndJob, ReservationLost, FinalizeAccepted, FinalizeLost,
             OutcomeInvalid, OutcomeLost, ScheduleRetry, MarkFatalFailure, PassOver,
             FinalizeAmbiguous
      <3> QED
        BY <1>0, <2>1, <2>2, <3>1, AmbiguousKeepsExpiry
    <2>3. CASE ~FinalizeAmbiguous(w)
      <3>1. WorkerStep(w)
        BY <1>9 DEF EndJob, WorkerStep
      <3>2. \A a \in Attempts : Unanswered(a)' => Unanswered(a)
        BY <2>3, <3>1, WorkerLeavesUnanswered DEF PipelineInv
      <3>3. CASE events' = events
        BY <1>0, <1>2, <2>1, <3>2, <3>3, QuietKeepsExpiry
      <3>4. CASE \E k \in {"retry", "dead-letter"} : Msg(w) \in Messages /\ Record(Msg(w), k)
        BY <1>0, <2>1, <3>2, <3>4, RecordKeepsExpiry DEF EventKinds, StartKinds
      <3>5. worker[w].pc # "idle" => Msg(w) \in Messages
        BY DEF PipelineInv, DeliveryInv, CallsAreOwned, Msg
      <3> QED
        BY <1>9, <2>3, <3>3, <3>4, <3>5 DEF EndJob, ScheduleRetry, MarkFatalFailure
    <2> QED
      BY <2>2, <2>3
  <1>10. ASSUME FaultStep
         PROVE  ExpiryInv'
    <2>1. ASSUME NEW j \in jobs, JobFails(j) \/ WrongProcessor(j)
          PROVE  ExpiryInv'
      BY <1>6, <2>1, FaultsAreRemembered DEF JobFails, WrongProcessor, PipelineInv
    <2>2. ASSUME NEW w \in Workers, WorkerCrashes(w) \/ JobStalls(w)
          PROVE  ExpiryInv'
      <3>1. /\ attempts' = attempts /\ events' = events /\ published' = published
            /\ relay' = relay /\ jobs \subseteq jobs'
        BY <2>2 DEF WorkerCrashes, JobStalls, Redelivered, Abandon, vars
      <3>2. \A v \in Workers : running'[v] \in {running[v], 0}
        BY <2>2 DEF WorkerCrashes, JobStalls, PipelineInv, PipelineTypeOK
      <3> QED
        BY <1>0, <1>1, <1>2, <3>1, <3>2, QuietKeepsExpiry
    <2>3. ASSUME NEW m \in Messages, RecoverFromLiveWorker(m) \/ RequeueDeadLetter(m)
          PROVE  ExpiryInv'
      BY <1>3, <2>3 DEF RecoverFromLiveWorker, RequeueDeadLetter, MessageStep
    <2> QED
      BY <1>10, <2>1, <2>2, <2>3 DEF FaultStep
  <1>11. CASE CallersStep \/ UNCHANGED pipelineVars
    <2>1. attempts' = attempts /\ events' = events /\ UNCHANGED queueVars
      BY <1>11, EnvironmentLeavesAttempts DEF CallersStep, EnvironmentStep, pipelineVars, vars
    <2> QED
      BY <1>0, <1>1, <1>2, <2>1, QuietKeepsExpiry DEF queueVars
  <1> QED
    BY <1>4, <1>5, <1>7, <1>8, <1>9, <1>10, <1>11 DEF PipelineNext

LEMMA NothingIsParkedAtFirst ==
  ASSUME PipelineInit
  PROVE  \A m \in Messages : ~Parked(m) /\ ExpiryEvents(m) = {}
  <1>1. \A m \in Messages : status[m] = NoMessage
    BY DEF PipelineInit, Init
  <1>2. events = <<>>
    BY DEF PipelineInit
  <1>3. Ids = {}
    BY <1>2 DEF Ids
  <1> QED
    BY <1>1, <1>3 DEF Parked, NoMessage, ExpiryEvents

\* As long as no job has failed or been completed by another class of worker, the
\* expiry of a message parked on an unanswered call is unpublished or waiting until it
\* has settled the message: no crash, relay failure, requeue or recovery loses it.
THEOREM NoExpiryIntentIsLost == PipelineSpec => []ExpiryIntentKept
  <1> DEFINE Kept == ExpiryInv \/ Suffered("job fails") \/ Suffered("wrong processor")
  <1>1. PipelineInit => ExpiryInv
    <2> SUFFICES ASSUME PipelineInit PROVE ExpiryInv
      OBVIOUS
    <2>1. \A m \in Messages : ~Parked(m) /\ ExpiryEvents(m) = {}
      BY NothingIsParkedAtFirst
    <2>2. /\ \A r \in Relays : ~relay[r].added
          /\ \A w \in Workers : running[w] = 0
      BY DEF PipelineInit, NoTick
    <2> QED
      BY <2>1, <2>2 DEF ExpiryInv, ExpiriesArePending, ExpiriesHaveACause,
                        AddedExpiryIsQueued, OnlyStartsRun, IdleRelaysAddedNothing
  <1>2. PipelineInv /\ Kept /\ [PipelineNext]_pipelineVars => Kept'
    BY ExpiryStep, FaultsAreRemembered DEF PipelineInv
  <1>3. Kept => ExpiryIntentKept
    BY DEF ExpiryInv, ExpiryIntentKept
  <1>4. PipelineInit => Kept
    BY <1>1
  <1> HIDE DEF Kept
  <1> QED
    BY <1>2, <1>3, <1>4, PipelineInvariant, PTL DEF PipelineSpec

=============================================================================
