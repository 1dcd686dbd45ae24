------------------------------ MODULE SmsPromise ------------------------------
(***************************************************************************)
(* What the service keeps to whoever sends an SMS, in terms of the message *)
(* and of the provider calls that took it: a call is opened for one        *)
(* message at a time; a message is offered again, requeued or given up as  *)
(* dead only while no call took it for certain, that is with a response    *)
(* that did not break off, so that at most one call ever does; and it is   *)
(* confirmed, and its delivery reported, only after a provider took it.    *)
(* Jobs, workers, operators and the tables are the business of the         *)
(* detailed modules.                                                       *)
(***************************************************************************)
CONSTANTS Messages, Attempts
VARIABLES
  phase,     \* what a caller may be told about a message
  takenBy,   \* the provider calls that took it
  cutShort   \* those whose response broke off

vars == <<phase, takenBy, cutShort>>

Init ==
  /\ phase = [m \in Messages |-> "unknown"]
  /\ takenBy = [m \in Messages |-> {}]
  /\ cutShort = [m \in Messages |-> {}]

\* No call took it, as far as a whole response can tell.
Free(m) == takenBy[m] \subseteq cutShort[m]

Move(m, from, to) ==
  /\ phase[m] = from
  /\ phase' = [phase EXCEPT ![m] = to]
  /\ UNCHANGED <<takenBy, cutShort>>

Accept(m) == Move(m, "unknown", "waiting")

Call(m) == Free(m) /\ Move(m, "waiting", "calling")

\* The call may end without an answer, and the provider may take the message
\* after the service stopped waiting for it, or after an operator confirmed an
\* earlier call whose response broke off.
Take(m, a) ==
  /\ phase[m] \notin {"unknown", "waiting", "dead"}
  /\ Free(m)
  /\ takenBy' = [takenBy EXCEPT ![m] = @ \cup {a}]
  /\ cutShort' \in {cutShort, [cutShort EXCEPT ![m] = @ \cup {a}]}
  /\ UNCHANGED phase

\* The provider refused, or broke off its response: another one may be called.
Release(m) == Free(m) /\ Move(m, "calling", "waiting")

Confirm(m) == takenBy[m] # {} /\ Move(m, "calling", "SENT")

\* Nobody knows whether the call took it; it is never offered again.
GiveUp(m) == Move(m, "calling", "UNDELIVERED")

DeadLetter(m) == Free(m) /\ Move(m, "waiting", "dead")

Requeue(m) == Free(m) /\ Move(m, "dead", "waiting")

Report(m) ==
  /\ takenBy[m] # {}
  /\ \E report \in {"DELIVERED", "UNDELIVERED", "REJECTED"} : Move(m, "SENT", report)

Next ==
  \E m \in Messages :
    \/ Accept(m) \/ Call(m) \/ Release(m) \/ Confirm(m) \/ GiveUp(m)
    \/ DeadLetter(m) \/ Requeue(m) \/ Report(m)
    \/ \E a \in Attempts : Take(m, a)

Spec == Init /\ [][Next]_vars

=============================================================================
