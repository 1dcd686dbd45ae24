------------------------ MODULE ProviderRateLimiter --------------------------
(***************************************************************************)
(* The rate limit in front of every provider call (modules/queue/          *)
(* provider-rate-limiter): a counter per provider in Redis that expires    *)
(* with its window, shared by the workers of all processes.                *)
(*                                                                         *)
(* The script is atomic and sees one instant.  Redis drops a key once the  *)
(* time is past its expiry, so in the last instant the key is still there, *)
(* with a PTTL of 0.  Time is in ticks, each key and sleeper knowing how   *)
(* many it has left.  A count above the limit is not told from Limit + 1.  *)
(***************************************************************************)
EXTENDS Integers

CONSTANTS
  Calls,       \* provider calls that need a slot, at most one each
  Providers,
  Limit,       \* SMS_PROVIDER_TPS
  Window       \* WINDOW_MS, in ticks

ASSUME LimiterAssumption == Limit \in Nat \ {0} /\ Window \in Nat \ {0}

VARIABLES
  count,     \* the counter under each key
  ttl,       \* ticks until each key is past its expiry; Gone if there is no key
  call,      \* where each call stands: its provider and the ticks left to sleep
  granted    \* grants to each provider in its key's window, capped likewise

vars == <<count, ttl, call, granted>>

Gone == -1

CallStates == [pc : {"new", "acquire", "asleep", "granted", "dead"},
               provider : Providers, left : 0 .. Window]

LimiterTypeOK ==
  /\ count \in [Providers -> 0 .. Limit + 1]
  /\ ttl \in [Providers -> Gone .. Window]
  /\ call \in [Calls -> CallStates]
  /\ granted \in [Providers -> 0 .. Limit + 1]

Init ==
  /\ count = [p \in Providers |-> 0]
  /\ ttl = [p \in Providers |-> Gone]
  /\ call \in [Calls -> [pc : {"new"}, provider : Providers, left : {0}]]
  /\ granted = [p \in Providers |-> 0]

Plus1(n) == IF n > Limit THEN n ELSE n + 1

\* Mutant: one key for all providers.
KeyOf_shared(p) == CHOOSE q \in Providers : TRUE

\* sms:provider-tps:<provider>
KeyOf(p) == p

Exists(k) == ttl[k] # Gone

\* What INCR returns, and the PTTL after it.
Counted(k) == IF Exists(k) THEN Plus1(count[k]) ELSE 1

\* Mutant: every increment renews the expiry.
Remaining_renewed(k) == Window

Remaining(k) == IF Exists(k) THEN ttl[k] ELSE Window

\* Mutant: one slot too many.
HasSlot_inclusive(k) == Counted(k) <= Limit + 1

HasSlot(k) == Counted(k) <= Limit

\* What `acquire` takes for a slot: the script's 0, whichever branch returned it.
PassesGate(k) == HasSlot(k) \/ Remaining(k) = 0

-----------------------------------------------------------------------------

Ask(c) ==
  /\ call[c].pc = "new"
  /\ call' = [call EXCEPT ![c].pc = "acquire"]
  /\ UNCHANGED <<count, ttl, granted>>

RunScript(c) ==
  LET k == KeyOf(call[c].provider) IN
  /\ call[c].pc = "acquire"
  /\ count' = [count EXCEPT ![k] = Counted(k)]
  /\ ttl' = [ttl EXCEPT ![k] = Remaining(k)]

Grant(c) ==
  LET p == call[c].provider IN
  /\ RunScript(c)
  /\ PassesGate(KeyOf(p))
  /\ call' = [call EXCEPT ![c].pc = "granted"]
  /\ granted' = [granted EXCEPT ![p] = IF Exists(KeyOf(p)) THEN Plus1(@) ELSE 1]

Sleep(c) ==
  LET k == KeyOf(call[c].provider) IN
  /\ RunScript(c)
  /\ ~PassesGate(k)
  /\ call' = [call EXCEPT ![c].pc = "asleep", ![c].left = Remaining(k)]
  /\ UNCHANGED granted

\* The timer may fire late, when other calls have already taken the slots.
Wake(c) ==
  /\ call[c].pc = "asleep"
  /\ call[c].left = 0
  /\ call' = [call EXCEPT ![c].pc = "acquire"]
  /\ UNCHANGED <<count, ttl, granted>>

\* The worker dies, or Redis refuses the script.
Die(c) ==
  /\ call[c].pc \in {"acquire", "asleep"}
  /\ call' = [call EXCEPT ![c].pc = "dead"]
  /\ UNCHANGED <<count, ttl, granted>>

\* Mutant: time left is not stopped at zero.
Less1_unbounded(n) == n - 1

Less1(n) == IF n > 0 THEN n - 1 ELSE 0

Tick ==
  /\ ttl' = [k \in Providers |-> IF Exists(k) THEN ttl[k] - 1 ELSE Gone]
  /\ granted' = [k \in Providers |-> IF ttl'[k] = Gone THEN 0 ELSE granted[k]]
  /\ count' = [k \in Providers |-> IF ttl'[k] = Gone THEN 0 ELSE count[k]]
  /\ call' = [c \in Calls |-> [call[c] EXCEPT !.left = Less1(@)]]

CallStep(c) == Grant(c) \/ Sleep(c) \/ Wake(c)

Next ==
  \/ \E c \in Calls : Ask(c) \/ CallStep(c) \/ Die(c)
  \/ Tick

Spec == Init /\ [][Next]_vars

\* Time passes, Redis answers, and a timer that is due fires.
FairSpec ==
  /\ Spec
  /\ WF_vars(Tick)
  /\ \A c \in Calls : WF_vars(CallStep(c))

-----------------------------------------------------------------------------
(* Properties.                                                              *)

\* Before its last instant a window grants no more than the limit, however many
\* workers ask and wake at once (acquire).
LimitHoldsBeforeTheEnd == \A p \in Providers : ttl[p] > 0 => granted[p] <= Limit

\* A call is made to wait only when its own provider's quota was given away in
\* this window: no provider consumes another's (docs/configuration.md).
WaitsOnlyWhenExhausted ==
  [][\A c \in Calls : call[c].pc = "acquire" /\ call'[c].pc = "asleep"
       => granted[call[c].provider] >= Limit]_vars

\* A sleeping call's timer runs out with the window it found full, however many
\* calls ask meanwhile: none renews the expiry or sleeps into the next window.
SleepersWakeWithTheWindow ==
  \A c \in Calls : call[c].pc = "asleep" /\ call[c].left > 0
    => ttl[KeyOf(call[c].provider)] = call[c].left

\* Every call that asks is served, unless its worker dies: nobody sleeps for a
\* window that others keep open.
CallsAreServed == \A c \in Calls : call[c].pc = "acquire" ~> call[c].pc \in {"granted", "dead"}

\* Why: every grant was counted under the provider's own key, and what is
\* counted beyond the limit was granted only in the last instant.
GrantsAreCounted ==
  \A p \in Providers :
    /\ ttl[p] = Gone => granted[p] = 0 /\ count[p] = 0
    /\ count[p] <= Limit => granted[p] = count[p]
    /\ count[p] > Limit => granted[p] >= Limit
    /\ ttl[p] > 0 => granted[p] <= Limit

=============================================================================
