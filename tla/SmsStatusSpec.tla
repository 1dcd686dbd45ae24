---------------------------- MODULE SmsStatusSpec ----------------------------
(***************************************************************************)
(* What docs/states.md promises of a message's status, and nothing else: a *)
(* row is created QUEUED, moves only along transitionTable, and leaves a   *)
(* terminal status only by the administrative requeue of a dead-lettered   *)
(* message.  The detailed modules implement this specification.            *)
(***************************************************************************)
EXTENDS SmsStateMachine

CONSTANT Messages
VARIABLE status

Init == status = [m \in Messages |-> NoMessage]

Create(m) ==
  /\ status[m] = NoMessage
  /\ status' = [status EXCEPT ![m] = "QUEUED"]

Advance(m) ==
  \E to \in Outgoing(status[m]) : status' = [status EXCEPT ![m] = to]

\* The only way out of a terminal status (resetForRequeue).
Requeue(m) ==
  /\ status[m] = "FATAL_FAILURE"
  /\ status' = [status EXCEPT ![m] = "RETRY_SCHEDULED"]

Next == \E m \in Messages : Create(m) \/ Advance(m) \/ Requeue(m)

Spec == Init /\ [][Next]_status

=============================================================================
