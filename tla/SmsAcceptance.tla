---------------------------- MODULE SmsAcceptance ----------------------------
(***************************************************************************)
(* Acceptance of POST /api/v1/sms/send (modules/sms/sms.service,           *)
(* database/sms-persistence.repository): concurrent requests that carry    *)
(* the same X-Idempotency-Key, statement by statement.                     *)
(*                                                                         *)
(* PostgreSQL at READ COMMITTED: a statement sees what was committed when  *)
(* it ran.  A deleted row stays locked, and its key reserved, until the    *)
(* transaction ends; whoever touches it waits.  The three inserts and the  *)
(* commit are one step, since nobody sees them apart.                      *)
(*                                                                         *)
(* `now` is read once per request and is the time of both tries.  A        *)
(* request that creates a message lends it its own name as an id.          *)
(***************************************************************************)
EXTENDS Naturals

CONSTANTS
  Requests,
  Keys,
  TTL,       \* IDEMPOTENCY_TTL_HOURS, in ticks of the clock
  MaxAge,    \* how long a request may take, in ticks
  MaxTime,   \* the end of the clock
  None

\* A request takes seconds (transaction timeouts) and a key lives for hours.
ASSUME AcceptanceAssumption ==
  /\ TTL \in Nat /\ MaxAge \in Nat /\ MaxTime \in Nat
  /\ MaxAge < TTL

VARIABLES
  clock,
  owner,      \* sms_idempotency_keys, committed rows
  messages,   \* sms_messages, committed rows
  lock,       \* per key, the open transaction that deleted its row
  req,        \* where each request stands
  reply       \* the message each request was answered with

vars == <<clock, owner, messages, lock, req, reply>>

OwnerRows == [msg : Requests, expiresAt : Nat]
MessageRows == [id : Requests, key : Keys, at : Nat]

\* "conflict": the second try failed on the unique key as well.
RequestStates ==
  [pc : {"idle", "find", "delete", "insert", "done", "conflict", "dead"},
   key : Keys \cup {None}, now : Nat, retried : BOOLEAN]

ASSUME NoneIsNoRow == None \notin OwnerRows \cup Requests \cup Keys

AcceptanceTypeOK ==
  /\ clock \in Nat
  /\ owner \in [Keys -> OwnerRows \cup {None}]
  /\ messages \subseteq MessageRows
  /\ lock \in [Keys -> Requests \cup {None}]
  /\ req \in [Requests -> RequestStates]
  /\ reply \in [Requests -> Requests \cup {None}]

Init ==
  /\ clock = 0
  /\ owner = [k \in Keys |-> None]
  /\ messages = {}
  /\ lock = [k \in Keys |-> None]
  /\ req = [r \in Requests |-> [pc |-> "idle", key |-> None, now |-> 0, retried |-> FALSE]]
  /\ reply = [r \in Requests |-> None]

Key(r) == req[r].key
Active(r) == req[r].pc \in {"find", "delete", "insert"}
GoTo(r, pc) == req' = [req EXCEPT ![r].pc = pc]

\* The key's row as request r judges it, by the time it came in.
Live(r) == owner[Key(r)] # None /\ owner[Key(r)].expiresAt > req[r].now
Expired(r) == owner[Key(r)] # None /\ owner[Key(r)].expiresAt <= req[r].now

\* No other open transaction has deleted the key's row.
MayTouch(r) == lock[Key(r)] \in {None, r}

-----------------------------------------------------------------------------

\* Header and body are valid: a rejected request reaches no table.
AcceptMessage(r, k) ==
  /\ req[r].pc = "idle"
  /\ req' = [req EXCEPT ![r] = [pc |-> "find", key |-> k, now |-> clock, retried |-> FALSE]]
  /\ UNCHANGED <<clock, owner, messages, lock, reply>>

\* Mutant: the row is returned in place of its message.
ReturnOwner_wholeRow(r) ==
  /\ req[r].pc = "find"
  /\ Live(r)
  /\ reply' = [reply EXCEPT ![r] = owner[Key(r)]]
  /\ GoTo(r, "done")
  /\ UNCHANGED <<clock, owner, messages, lock>>

ReturnOwner(r) ==
  /\ req[r].pc = "find"
  /\ Live(r)
  /\ reply' = [reply EXCEPT ![r] = owner[Key(r)].msg]
  /\ GoTo(r, "done")
  /\ UNCHANGED <<clock, owner, messages, lock>>

FindNoOwner(r) ==
  /\ req[r].pc = "find"
  /\ ~Live(r)
  /\ GoTo(r, IF Expired(r) THEN "delete" ELSE "insert")
  /\ UNCHANGED <<clock, owner, messages, lock, reply>>

\* Mutant: the row is deleted whatever its term.
DeleteExpired_any(r) ==
  /\ req[r].pc = "delete"
  /\ MayTouch(r)
  /\ lock' = IF owner[Key(r)] # None THEN [lock EXCEPT ![Key(r)] = r] ELSE lock
  /\ GoTo(r, "insert")
  /\ UNCHANGED <<clock, owner, messages, reply>>

\* The row may have been replaced since it was read; a row that is not expired
\* is left alone.
DeleteExpired(r) ==
  /\ req[r].pc = "delete"
  /\ MayTouch(r)
  /\ lock' = IF Expired(r) THEN [lock EXCEPT ![Key(r)] = r] ELSE lock
  /\ GoTo(r, "insert")
  /\ UNCHANGED <<clock, owner, messages, reply>>

\* The key is taken by a committed row which this transaction has not deleted.
KeyTaken(r) == owner[Key(r)] # None /\ lock[Key(r)] # r

\* Mutant: the term is counted from the commit.
CreateMessage_termFromCommit(r) ==
  /\ req[r].pc = "insert"
  /\ MayTouch(r)
  /\ ~KeyTaken(r)
  /\ owner' = [owner EXCEPT ![Key(r)] = [msg |-> r, expiresAt |-> clock + TTL]]
  /\ messages' = messages \cup {[id |-> r, key |-> Key(r), at |-> req[r].now]}
  /\ lock' = [lock EXCEPT ![Key(r)] = None]
  /\ reply' = [reply EXCEPT ![r] = r]
  /\ GoTo(r, "done")
  /\ UNCHANGED clock

CreateMessage(r) ==
  /\ req[r].pc = "insert"
  /\ MayTouch(r)
  /\ ~KeyTaken(r)
  /\ owner' = [owner EXCEPT ![Key(r)] = [msg |-> r, expiresAt |-> req[r].now + TTL]]
  /\ messages' = messages \cup {[id |-> r, key |-> Key(r), at |-> req[r].now]}
  /\ lock' = [lock EXCEPT ![Key(r)] = None]
  /\ reply' = [reply EXCEPT ![r] = r]
  /\ GoTo(r, "done")
  /\ UNCHANGED clock

\* Mutant: only the insert is tried again, for as long as it takes.
UniqueViolation_insertAgain(r) ==
  /\ req[r].pc = "insert"
  /\ MayTouch(r)
  /\ KeyTaken(r)
  /\ req' = [req EXCEPT ![r].retried = ~req[r].retried]
  /\ UNCHANGED <<clock, owner, messages, lock, reply>>

\* Mutant: no second try.
UniqueViolation_gives_up(r) ==
  /\ req[r].pc = "insert"
  /\ MayTouch(r)
  /\ KeyTaken(r)
  /\ GoTo(r, "conflict")
  /\ UNCHANGED <<clock, owner, messages, lock, reply>>

\* P2002: the transaction rolls back, and the whole of it is tried once more.
UniqueViolation(r) ==
  /\ req[r].pc = "insert"
  /\ MayTouch(r)
  /\ KeyTaken(r)
  /\ IF req[r].retried THEN GoTo(r, "conflict")
     ELSE req' = [req EXCEPT ![r].pc = "find", ![r].retried = TRUE]
  /\ UNCHANGED <<clock, owner, messages, lock, reply>>

\* Mutant: the transaction of a lost connection stays open.
RequestDies_leftOpen(r) ==
  /\ Active(r)
  /\ GoTo(r, "dead")
  /\ UNCHANGED <<clock, owner, messages, lock, reply>>

\* The connection or the process dies: the transaction rolls back.
RequestDies(r) ==
  /\ Active(r)
  /\ GoTo(r, "dead")
  /\ lock' = IF lock[Key(r)] = r THEN [lock EXCEPT ![Key(r)] = None] ELSE lock
  /\ UNCHANGED <<clock, owner, messages, reply>>

Tick ==
  /\ clock < MaxTime
  /\ \A r \in Requests : Active(r) => clock < req[r].now + MaxAge
  /\ clock' = clock + 1
  /\ UNCHANGED <<owner, messages, lock, req, reply>>

RequestStep(r) ==
  \/ ReturnOwner(r)
  \/ FindNoOwner(r)
  \/ DeleteExpired(r)
  \/ CreateMessage(r)
  \/ UniqueViolation(r)

Next ==
  \/ \E r \in Requests :
       (\E k \in Keys : AcceptMessage(r, k)) \/ RequestStep(r) \/ RequestDies(r)
  \/ Tick

Spec == Init /\ [][Next]_vars

\* The database answers every statement that is not waiting for a lock.
FairSpec == Spec /\ \A r \in Requests : WF_vars(RequestStep(r))

-----------------------------------------------------------------------------
(* Properties.                                                              *)

\* Two messages created under one key came in at least a term apart, however
\* their requests interleave (createOrGetMessageInTransaction).
OneMessagePerTerm ==
  \A m, n \in messages :
    m.key = n.key /\ m # n => m.at + TTL <= n.at \/ n.at + TTL <= m.at

\* A request is answered with a message of its own key whose term was not over
\* when the request came in.
RepliesAreLive ==
  \A r \in Requests : reply[r] # None =>
    \E m \in messages : /\ m.id = reply[r]
                        /\ m.key = Key(r)
                        /\ req[r].now < m.at + TTL

\* One retry is enough: no caller sees the unique-key error
\* (createOrGetMessage).
ConflictIsAbsorbed == \A r \in Requests : req[r].pc # "conflict"

\* Requests that wait for each other's rows all finish.
RequestsFinish == \A r \in Requests : Active(r) ~> ~Active(r)

\* Nobody waits in vain: the request whose lock another one waits for waits for
\* nobody, and its insert goes through.  There is no cycle of waiting requests,
\* and no lock that outlives its request.
Waits(r) == req[r].pc \in {"delete", "insert"} /\ ~MayTouch(r)

NobodyWaitsInVain ==
  \A r \in Requests : Waits(r) =>
    LET holder == lock[Key(r)] IN
    req[holder].pc = "insert" /\ MayTouch(holder) /\ ~KeyTaken(holder)

\* A request is over after four statements at most (find, delete, insert and,
\* after a failed insert, find again), whatever the others do to its key.
StepsLeft(r) ==
  CASE req[r].pc = "find"   -> IF req[r].retried THEN 1 ELSE 4
    [] req[r].pc = "delete" -> 3
    [] req[r].pc = "insert" -> 2
    [] OTHER                -> 0

RequestsAreShort ==
  [][\A r \in Requests :
       Active(r) /\ req'[r] # req[r] => StepsLeft(r)' < StepsLeft(r)]_vars

\* The committed key rows change hands as a key may.
IdempotentKeys == INSTANCE IdempotencySpec WITH owner <- owner
ImplementsIdempotency == IdempotentKeys!Spec

\* Why these hold.  A key's row carries its latest message, which all others
\* precede by a term; who deleted the row saw it expired.
RowIsLatest ==
  /\ \A k \in Keys : owner[k] # None =>
       \E m \in messages : m.id = owner[k].msg /\ m.key = k /\ m.at + TTL = owner[k].expiresAt
  /\ \A m \in messages : owner[m.key] # None /\ m.at + TTL <= owner[m.key].expiresAt

DeleterSawItExpired ==
  \A k \in Keys : lock[k] # None =>
    /\ req[lock[k]].pc = "insert"
    /\ Key(lock[k]) = k
    /\ owner[k] # None
    /\ owner[k].expiresAt <= req[lock[k]].now

\* A row that stands in a request's way was created while the request ran, so its
\* term outlasts the request, whose second try finds it.
InTheWayIsLive ==
  \A r \in Requests :
    /\ req[r].pc # "idle" => Key(r) \in Keys /\ req[r].now <= clock
    /\ Active(r) => clock <= req[r].now + MaxAge
    /\ req[r].pc = "insert" /\ KeyTaken(r) => Live(r)
    /\ req[r].retried /\ Active(r) => req[r].pc = "find" /\ Live(r)

AnsweredAreDone ==
  \A r \in Requests : reply[r] # None => req[r].pc = "done"

AcceptanceInv ==
  /\ AcceptanceTypeOK
  /\ RowIsLatest
  /\ DeleterSawItExpired
  /\ InTheWayIsLive
  /\ AnsweredAreDone
  /\ OneMessagePerTerm
  /\ RepliesAreLive
  /\ ConflictIsAbsorbed

=============================================================================
