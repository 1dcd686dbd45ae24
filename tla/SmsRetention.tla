---------------------------- MODULE SmsRetention -----------------------------
(***************************************************************************)
(* The purge of old messages (modules/maintenance/retention.service):      *)
(* select a batch, delete the children table by table, delete the          *)
(* messages, in one transaction at READ COMMITTED, so that every statement *)
(* sees what the rest of the system committed in between.                  *)
(*                                                                         *)
(* The rest of the system is every writer of the other modules, reduced to *)
(* the status change it commits and the table it inserts a child into.  A  *)
(* child cannot be inserted for a deleted message nor a message deleted    *)
(* while it has children (onDelete: Restrict).  Deleting the messages and  *)
(* committing are one step.                                                *)
(***************************************************************************)
EXTENDS Naturals, Sequences, FiniteSets, SmsStateMachine

CONSTANTS
  Messages,
  Purges,      \* concurrent executions of purgeExpired
  BatchSize,   \* RETENTION_CLEANUP_BATCH_SIZE
  MaxFaults    \* bound on requeues and aborted purges

ASSUME RetentionAssumption == BatchSize \in Nat \ {0} /\ MaxFaults \in Nat

VARIABLES
  status,    \* sms_messages.status; NoMessage before and after the row exists
  due,       \* messages whose retentionExpiresAt has passed
  rows,      \* per message, the child tables that hold rows of it
  calls,     \* messages with a provider call under way
  purge,     \* each purge: what it selected, the tables it has been through
             \* and the rows it deleted and has not committed
  reopened,  \* messages requeued after a purge selected them
  faults

vars == <<status, due, rows, calls, purge, reopened, faults>>

\* The child tables in the order they are purged.
Children == <<"resolutions", "attempts", "events">>
Tables == {Children[i] : i \in DOMAIN Children}

NoPurge == [ids |-> {}, table |-> 1, deleted |-> {}]

RetentionTypeOK ==
  /\ status \in [Messages -> Statuses \cup {NoMessage}]
  /\ due \subseteq Messages
  /\ rows \in [Messages -> SUBSET Tables]
  /\ calls \subseteq Messages
  /\ purge \in [Purges -> [ids : SUBSET Messages, table : 1 .. 4,
                           deleted : SUBSET (Messages \X Tables)]]
  /\ reopened \subseteq Messages
  /\ faults \in Nat

Init ==
  /\ status = [m \in Messages |-> NoMessage]
  /\ due = {}
  /\ rows = [m \in Messages |-> {}]
  /\ calls = {}
  /\ purge = [p \in Purges |-> NoPurge]
  /\ reopened = {}
  /\ faults = 0

Purging(p) == purge[p].ids # {}

-----------------------------------------------------------------------------
(* The other writers.                                                       *)

\* A row inserted into a child table is none of those a purge has deleted.
Insert(m, tables) ==
  /\ rows' = [rows EXCEPT ![m] = @ \cup tables]
  /\ purge' = [p \in Purges |->
                 [purge[p] EXCEPT !.deleted = @ \ ({m} \X tables)]]

\* The child rows that the writer of a status change inserts with it: sweeps
\* and the end of a pass emit events, a reservation an attempt, an operator a
\* resolution.
InsertedWith(from, to) ==
  CASE to = "AWAITING_PROVIDER_RESULT" -> {{"attempts"}}
    [] to \in {"RETRY_SCHEDULED", "FATAL_FAILURE"} -> {{"events"}}
    [] from = "AWAITING_PROVIDER_RESULT" /\ to \in {"SENT", "UNDELIVERED"} ->
         {{}, {"resolutions"}}
    [] OTHER -> {{}}

CreateMessage(m) ==
  /\ status[m] = NoMessage
  /\ m \notin due
  /\ status' = [status EXCEPT ![m] = "QUEUED"]
  /\ Insert(m, {"events"})
  /\ UNCHANGED <<due, calls, reopened, faults>>

ChangeStatus(m, to) ==
  /\ IsValidTransition(status[m], to)
  /\ status' = [status EXCEPT ![m] = to]
  /\ \E tables \in InsertedWith(status[m], to) : Insert(m, tables)
  /\ calls' = IF to = "AWAITING_PROVIDER_RESULT" THEN calls \cup {m}
              ELSE IF to \in {"SENT", "PROCESSING"} THEN calls \ {m} ELSE calls
  /\ UNCHANGED <<due, reopened, faults>>

\* finalizeProviderAttempt of an ambiguous answer: an event whatever the status.
AmbiguousAnswer(m) ==
  /\ m \in calls
  /\ status[m] # NoMessage
  /\ calls' = calls \ {m}
  /\ Insert(m, {"events"})
  /\ UNCHANGED <<status, due, reopened, faults>>

ResetForRequeue(m) ==
  /\ faults < MaxFaults
  /\ faults' = faults + 1
  /\ status[m] = "FATAL_FAILURE"
  /\ status' = [status EXCEPT ![m] = "RETRY_SCHEDULED"]
  /\ Insert(m, {"events"})
  /\ reopened' = IF \E p \in Purges : m \in purge[p].ids
                 THEN reopened \cup {m} ELSE reopened
  /\ UNCHANGED <<due, calls>>

RetentionElapses(m) ==
  /\ status[m] # NoMessage
  /\ due' = due \cup {m}
  /\ UNCHANGED <<status, rows, calls, purge, reopened, faults>>

-----------------------------------------------------------------------------
(* purgeExpired.                                                            *)

\* Mutant: a message whose delivery receipt is still to come counts as done.
TerminalStatuses_sentToo ==
  {"SENT", "DELIVERED", "UNDELIVERED", "REJECTED", "FATAL_FAILURE"}

TerminalStatuses == {"DELIVERED", "UNDELIVERED", "REJECTED", "FATAL_FAILURE"}

Expired == {m \in due : status[m] \in TerminalStatuses}

\* `take` without an order: any batch of the expired messages.
SelectExpired(p, ids) ==
  /\ ~Purging(p)
  /\ ids \subseteq Expired
  /\ ids # {}
  /\ Cardinality(ids) <= BatchSize
  /\ Cardinality(ids) = BatchSize \/ ids = Expired
  /\ purge' = [purge EXCEPT ![p] = [NoPurge EXCEPT !.ids = ids]]
  /\ UNCHANGED <<status, due, rows, calls, reopened, faults>>

\* The rows of the next child table; a row deleted by another purge is waited for.
RowsOf(p) ==
  {<<m, Children[purge[p].table]>> :
     m \in {n \in purge[p].ids : Children[purge[p].table] \in rows[n]}}

DeleteChildren(p) ==
  /\ Purging(p)
  /\ purge[p].table <= Len(Children)
  /\ \A q \in Purges \ {p} : purge[q].deleted \cap RowsOf(p) = {}
  /\ purge' = [purge EXCEPT ![p].deleted = @ \cup RowsOf(p), ![p].table = @ + 1]
  /\ UNCHANGED <<status, due, rows, calls, reopened, faults>>

Unreferenced(p) == \A m \in purge[p].ids : {m} \X rows[m] \subseteq purge[p].deleted

\* Mutant: the next purge starts before the first table.
EndPurge_zeroBased(p) ==
  /\ purge' = [purge EXCEPT ![p] = [NoPurge EXCEPT !.table = 0]]
  /\ reopened' = {m \in reopened : \E q \in Purges \ {p} : m \in purge[q].ids}

EndPurge(p) ==
  /\ purge' = [purge EXCEPT ![p] = NoPurge]
  /\ reopened' = {m \in reopened : \E q \in Purges \ {p} : m \in purge[q].ids}

\* Mutant: the messages go before their events.
DeleteMessages_beforeEvents(p) ==
  /\ Purging(p)
  /\ purge[p].table = Len(Children)
  /\ Unreferenced(p)
  /\ status' = [m \in Messages |-> IF m \in purge[p].ids THEN NoMessage ELSE status[m]]
  /\ rows' = [m \in Messages |-> IF m \in purge[p].ids THEN {} ELSE rows[m]]
  /\ EndPurge(p)
  /\ UNCHANGED <<due, calls, faults>>

\* By id alone: what the status has become since does not matter.
DeleteMessages(p) ==
  /\ Purging(p)
  /\ purge[p].table > Len(Children)
  /\ Unreferenced(p)
  /\ status' = [m \in Messages |-> IF m \in purge[p].ids THEN NoMessage ELSE status[m]]
  /\ rows' = [m \in Messages |-> IF m \in purge[p].ids THEN {} ELSE rows[m]]
  /\ EndPurge(p)
  /\ UNCHANGED <<due, calls, faults>>

\* A child inserted since its table was purged: the foreign key refuses, and the
\* whole batch rolls back.
ForeignKeyViolation(p) ==
  /\ Purging(p)
  /\ purge[p].table > Len(Children)
  /\ ~Unreferenced(p)
  /\ EndPurge(p)
  /\ UNCHANGED <<status, due, rows, calls, faults>>

\* The transaction times out or the process dies.
PurgeAborts(p) ==
  /\ Purging(p)
  /\ faults < MaxFaults
  /\ faults' = faults + 1
  /\ EndPurge(p)
  /\ UNCHANGED <<status, due, rows, calls>>

PurgeStep(p) ==
  \/ \E ids \in SUBSET Messages : SelectExpired(p, ids)
  \/ DeleteChildren(p)
  \/ DeleteMessages(p)
  \/ ForeignKeyViolation(p)

MessageStep(m) ==
  \/ CreateMessage(m)
  \/ \E to \in Statuses : ChangeStatus(m, to)
  \/ AmbiguousAnswer(m)
  \/ ResetForRequeue(m)
  \/ RetentionElapses(m)

Next ==
  \/ \E m \in Messages : MessageStep(m)
  \/ \E p \in Purges : PurgeStep(p) \/ PurgeAborts(p)

Spec == Init /\ [][Next]_vars

\* The scheduler runs the job every interval, and a database transaction ends.
FairSpec == Spec /\ \A p \in Purges : WF_vars(PurgeStep(p))

-----------------------------------------------------------------------------
(* Properties.                                                              *)

Purged(m) == status[m] # NoMessage /\ status'[m] = NoMessage

\* Between the selection and the delete nothing but a requeue can bring a
\* message back to life: any other message that is purged is finished, whatever
\* workers, webhooks and other purges commit meanwhile (purgeExpired).
PurgedAreFinished ==
  [][\A m \in Messages :
       Purged(m) => status[m] \in {"DELIVERED", "UNDELIVERED", "REJECTED", "FATAL_FAILURE"}
                    \/ m \in reopened]_vars

\* Refuted: the comment on TERMINAL_STATUSES says that in-flight messages are
\* never purged; the requeue endpoint acts between the two statements.
InFlightIsNotPurged ==
  [][\A m \in Messages : Purged(m) => IsTerminal(status[m])]_vars

\* A finished message does not outlive its retention for ever, although one late
\* insert undoes its whole batch (the order of the deletes, the foreign keys).
ExpiredArePurged ==
  \A m \in Messages : m \in Expired ~> m \notin Expired

\* Why: what a purge selected was terminal, and stays so unless requeued.
SelectedAreFinished ==
  \A p \in Purges : \A m \in purge[p].ids :
    status[m] \in TerminalStatuses \cup {NoMessage} \/ m \in reopened

=============================================================================
