--------------------------- MODULE SmsStateMachine ---------------------------
(***************************************************************************)
(* The lifecycle table of an SMS message (database/sms-state-machine.ts):  *)
(* which status may follow which.  Constant operators only; the modules    *)
(* with state extend this one.                                             *)
(***************************************************************************)

\* The status enum, and the value `status` has before a message row exists.
Statuses == {"QUEUED", "RETRY_SCHEDULED", "PROCESSING",
             "AWAITING_PROVIDER_RESULT", "SENT",
             "DELIVERED", "FATAL_FAILURE", "REJECTED", "UNDELIVERED"}

NoMessage == "NO_MESSAGE"

\* The edges of transitionTable, as a set of pairs.
TransitionTable ==
  ({"QUEUED", "RETRY_SCHEDULED"} \X {"PROCESSING"})
  \cup ({"PROCESSING"} \X {"AWAITING_PROVIDER_RESULT", "RETRY_SCHEDULED",
                           "REJECTED", "UNDELIVERED", "FATAL_FAILURE"})
  \cup ({"AWAITING_PROVIDER_RESULT"} \X {"SENT", "DELIVERED", "UNDELIVERED",
                                         "REJECTED", "PROCESSING"})
  \cup ({"SENT"} \X {"DELIVERED", "UNDELIVERED", "REJECTED"})

Outgoing(from) == {to \in Statuses : <<from, to>> \in TransitionTable}

IsValidTransition(from, to) == <<from, to>> \in TransitionTable

IsTerminal(s) == Outgoing(s) = {}

\* BEGIN_PROCESSING_FROM of the repository: narrower than the table, which also
\* allows PROCESSING after AWAITING_PROVIDER_RESULT.
BeginProcessingFrom == {"QUEUED", "RETRY_SCHEDULED"}

=============================================================================
