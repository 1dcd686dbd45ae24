--------------------- MODULE ProviderRateLimiterProofs -----------------------
(***************************************************************************)
(* Proofs about ProviderRateLimiter, for any number of calls and           *)
(* providers, any limit and any window.  GrantsAreCounted ties the grants  *)
(* of a window to the counter in Redis and is inductive with the types.    *)
(***************************************************************************)
EXTENDS ProviderRateLimiter, TLAPS

LimiterInv == LimiterTypeOK /\ GrantsAreCounted

LEMMA InitInv == Init => LimiterInv
  <1> SUFFICES ASSUME Init PROVE LimiterInv
    OBVIOUS
  <1>1. LimiterTypeOK
    BY LimiterAssumption DEF Init, LimiterTypeOK, CallStates, Gone
  <1>2. GrantsAreCounted
    BY LimiterAssumption DEF Init, GrantsAreCounted, Gone
  <1> QED
    BY <1>1, <1>2 DEF LimiterInv

\* What the script leaves behind, whatever it answers.
LEMMA ScriptResult ==
  ASSUME LimiterTypeOK, NEW c \in Calls, RunScript(c)
  PROVE  LET p == call[c].provider IN
         /\ p \in Providers /\ call[c] \in CallStates
         /\ Counted(p) \in 1 .. Limit + 1
         /\ Remaining(p) \in 0 .. Window
         /\ count' = [count EXCEPT ![p] = Counted(p)]
         /\ ttl' = [ttl EXCEPT ![p] = Remaining(p)]
  BY LimiterAssumption
  DEF LimiterTypeOK, CallStates, RunScript, KeyOf, Counted, Plus1, Remaining, Exists, Gone

LEMMA GrantKeepsInv ==
  ASSUME LimiterInv, NEW c \in Calls, Grant(c)
  PROVE  LimiterInv'
  <1> DEFINE p == call[c].provider
  <1>1. /\ p \in Providers /\ call[c] \in CallStates
        /\ Counted(p) \in 1 .. Limit + 1
        /\ Remaining(p) \in 0 .. Window
        /\ count' = [count EXCEPT ![p] = Counted(p)]
        /\ ttl' = [ttl EXCEPT ![p] = Remaining(p)]
    BY ScriptResult DEF Grant, LimiterInv
  <1>2. granted' = [granted EXCEPT ![p] = IF Exists(p) THEN Plus1(granted[p]) ELSE 1]
    BY DEF Grant, KeyOf
  <1>3. LimiterTypeOK'
    <2>1. (IF Exists(p) THEN Plus1(granted[p]) ELSE 1) \in 0 .. Limit + 1
      BY <1>1, LimiterAssumption DEF LimiterInv, LimiterTypeOK, Plus1
    <2>2. call' \in [Calls -> CallStates]
      BY <1>1 DEF Grant, LimiterInv, LimiterTypeOK, CallStates
    <2> QED
      BY <1>1, <1>2, <2>1, <2>2, LimiterAssumption DEF LimiterInv, LimiterTypeOK, Gone
  <1>4. GrantsAreCounted'
    <2> SUFFICES ASSUME NEW q \in Providers
                 PROVE  /\ ttl'[q] = Gone => granted'[q] = 0 /\ count'[q] = 0
                        /\ count'[q] <= Limit => granted'[q] = count'[q]
                        /\ count'[q] > Limit => granted'[q] >= Limit
                        /\ ttl'[q] > 0 => granted'[q] <= Limit
      BY DEF GrantsAreCounted
    <2>1. CASE q # p
      BY <2>1, <1>1, <1>2 DEF LimiterInv, LimiterTypeOK, GrantsAreCounted
    <2>2. CASE q = p
      <3>1. /\ count'[p] = Counted(p) /\ ttl'[p] = Remaining(p)
            /\ granted'[p] = IF Exists(p) THEN Plus1(granted[p]) ELSE 1
        BY <1>1, <1>2 DEF LimiterInv, LimiterTypeOK
      <3>2. Counted(p) <= Limit \/ Remaining(p) = 0
        BY DEF Grant, KeyOf, PassesGate, HasSlot
      <3>3. /\ count[p] \in 0 .. Limit + 1 /\ granted[p] \in 0 .. Limit + 1
            /\ ttl[p] \in Gone .. Window
        BY <1>1 DEF LimiterInv, LimiterTypeOK
      <3> QED
        BY <2>2, <3>1, <3>2, <3>3, <1>1, LimiterAssumption
        DEF LimiterInv, GrantsAreCounted, Counted, Remaining, Exists, Plus1, Gone
    <2> QED
      BY <2>1, <2>2
  <1> QED
    BY <1>3, <1>4 DEF LimiterInv

\* A call that has to wait finds the quota of its provider given away.
LEMMA SleeperFindsNoSlot ==
  ASSUME LimiterInv, NEW c \in Calls, Sleep(c)
  PROVE  LET p == call[c].provider IN
         /\ Exists(p) /\ count[p] >= Limit /\ granted[p] >= Limit
         /\ Counted(p) = Limit + 1 /\ Remaining(p) = ttl[p] /\ ttl[p] > 0
  <1> DEFINE p == call[c].provider
  <1>1. p \in Providers /\ Counted(p) \in 1 .. Limit + 1 /\ Remaining(p) \in 0 .. Window
    BY ScriptResult DEF Sleep, LimiterInv
  <1>2. Counted(p) > Limit /\ Remaining(p) # 0
    BY <1>1, LimiterAssumption DEF Sleep, KeyOf, PassesGate, HasSlot
  <1>3. count[p] \in 0 .. Limit + 1 /\ granted[p] \in 0 .. Limit + 1 /\ ttl[p] \in Gone .. Window
    BY <1>1 DEF LimiterInv, LimiterTypeOK
  <1> QED
    BY <1>1, <1>2, <1>3, LimiterAssumption
    DEF LimiterInv, GrantsAreCounted, Counted, Remaining, Exists, Plus1, Gone

LEMMA SleepKeepsInv ==
  ASSUME LimiterInv, NEW c \in Calls, Sleep(c)
  PROVE  LimiterInv'
  <1> DEFINE p == call[c].provider
  <1>1. /\ p \in Providers /\ call[c] \in CallStates
        /\ Remaining(p) \in 0 .. Window
        /\ count' = [count EXCEPT ![p] = Limit + 1]
        /\ ttl' = [ttl EXCEPT ![p] = ttl[p]]
        /\ granted[p] >= Limit
    BY ScriptResult, SleeperFindsNoSlot DEF Sleep, LimiterInv
  <1>2. ttl' = ttl /\ granted' = granted
    BY <1>1 DEF Sleep, LimiterInv, LimiterTypeOK
  <1>3. LimiterTypeOK'
    <2>1. call' \in [Calls -> CallStates]
      BY <1>1 DEF Sleep, LimiterInv, LimiterTypeOK, CallStates, KeyOf
    <2> QED
      BY <1>1, <1>2, <2>1, LimiterAssumption DEF LimiterInv, LimiterTypeOK
  <1>4. ttl[p] > 0
    BY SleeperFindsNoSlot
  <1>5. GrantsAreCounted'
    BY <1>1, <1>2, <1>4, LimiterAssumption
    DEF LimiterInv, LimiterTypeOK, GrantsAreCounted, Gone
  <1> QED
    BY <1>3, <1>5 DEF LimiterInv

LEMMA TickKeepsInv ==
  ASSUME LimiterInv, Tick
  PROVE  LimiterInv'
  <1>1. \A p \in Providers :
          /\ count[p] \in 0 .. Limit + 1 /\ granted[p] \in 0 .. Limit + 1
          /\ ttl[p] \in Gone .. Window
    BY DEF LimiterInv, LimiterTypeOK
  <1>2. \A p \in Providers :
          /\ ttl'[p] = IF ttl[p] = Gone THEN Gone ELSE ttl[p] - 1
          /\ granted'[p] = IF ttl'[p] = Gone THEN 0 ELSE granted[p]
          /\ count'[p] = IF ttl'[p] = Gone THEN 0 ELSE count[p]
    BY DEF Tick, Exists
  <1>3. LimiterTypeOK'
    <2>1. call' \in [Calls -> CallStates]
      <3> SUFFICES ASSUME NEW c \in Calls
                   PROVE  [call[c] EXCEPT !.left = Less1(@)] \in CallStates
        BY DEF Tick
      <3>1. call[c] \in CallStates /\ call[c].left \in 0 .. Window
        BY DEF LimiterInv, LimiterTypeOK, CallStates
      <3>2. Less1(call[c].left) \in 0 .. Window
        BY <3>1, LimiterAssumption DEF Less1
      <3> QED
        BY <3>1, <3>2 DEF CallStates
    <2>2. \A p \in Providers :
            /\ count'[p] \in 0 .. Limit + 1 /\ granted'[p] \in 0 .. Limit + 1
            /\ ttl'[p] \in Gone .. Window
      BY <1>1, <1>2, LimiterAssumption DEF Gone
    <2>3. /\ count' = [p \in Providers |-> count'[p]]
          /\ granted' = [p \in Providers |-> granted'[p]]
          /\ ttl' = [p \in Providers |-> ttl'[p]]
      BY DEF Tick
    <2> QED
      BY <2>1, <2>2, <2>3 DEF LimiterTypeOK
  <1>4. GrantsAreCounted'
    BY <1>1, <1>2, LimiterAssumption DEF LimiterInv, GrantsAreCounted, Gone
  <1> QED
    BY <1>3, <1>4 DEF LimiterInv

\* The other steps of a call leave the counters alone.
LEMMA CallKeepsInv ==
  ASSUME LimiterInv, NEW c \in Calls, Ask(c) \/ Wake(c) \/ Die(c)
  PROVE  LimiterInv'
  <1>1. UNCHANGED <<count, ttl, granted>>
    BY DEF Ask, Wake, Die
  <1>2. call' \in [Calls -> CallStates]
    BY DEF Ask, Wake, Die, LimiterInv, LimiterTypeOK, CallStates
  <1> QED
    BY <1>1, <1>2 DEF LimiterInv, LimiterTypeOK, GrantsAreCounted

-----------------------------------------------------------------------------

\* The counters in Redis and the grants made under them agree (acquire).
THEOREM LimiterInvariant == Spec => []LimiterInv
  <1>1. LimiterInv /\ [Next]_vars => LimiterInv'
    <2> SUFFICES ASSUME LimiterInv, [Next]_vars PROVE LimiterInv'
      OBVIOUS
    <2>1. ASSUME NEW c \in Calls, Ask(c) \/ CallStep(c) \/ Die(c)
          PROVE  LimiterInv'
      BY <2>1, GrantKeepsInv, SleepKeepsInv, CallKeepsInv DEF CallStep
    <2>2. CASE Tick
      BY <2>2, TickKeepsInv
    <2>3. CASE UNCHANGED vars
      BY <2>3 DEF vars, LimiterInv, LimiterTypeOK, GrantsAreCounted
    <2> QED
      BY <2>1, <2>2, <2>3 DEF Next
  <1> QED
    BY InitInv, <1>1, PTL DEF Spec

\* The variables keep their types.
THEOREM LimiterTypeCorrect == Spec => []LimiterTypeOK
  <1>1. LimiterInv => LimiterTypeOK
    BY DEF LimiterInv
  <1> QED
    BY LimiterInvariant, <1>1, PTL

\* Before its last instant no window grants more than the limit, for any number
\* of workers that ask and wake at once (acquire).
THEOREM WindowsKeepTheLimit == Spec => []LimitHoldsBeforeTheEnd
  <1>1. LimiterInv => LimitHoldsBeforeTheEnd
    BY DEF LimiterInv, GrantsAreCounted, LimitHoldsBeforeTheEnd
  <1> QED
    BY LimiterInvariant, <1>1, PTL

\* Nobody waits while its provider has quota left, whatever the other
\* providers' calls consume.
THEOREM QuotasAreIndependent == Spec => WaitsOnlyWhenExhausted
  <1> DEFINE Waits(c) == call[c].pc = "acquire" /\ call'[c].pc = "asleep"
             Exhausted == \A c \in Calls : Waits(c) => granted[call[c].provider] >= Limit
  <1>1. LimiterInv /\ [Next]_vars => Exhausted
    <2> SUFFICES ASSUME LimiterInv, [Next]_vars, NEW c \in Calls, Waits(c)
                 PROVE  granted[call[c].provider] >= Limit
      OBVIOUS
    <2>1. ASSUME NEW d \in Calls, Ask(d) \/ Grant(d) \/ Wake(d) \/ Die(d)
          PROVE  FALSE
      BY <2>1 DEF Ask, Grant, Wake, Die, LimiterInv, LimiterTypeOK, CallStates
    <2>2. ASSUME NEW d \in Calls, Sleep(d)
          PROVE  granted[call[c].provider] >= Limit
      <3>1. d = c
        BY <2>2 DEF Sleep, LimiterInv, LimiterTypeOK
      <3> QED
        BY <2>2, <3>1, SleeperFindsNoSlot
    <2>3. CASE Tick
      BY <2>3 DEF Tick, LimiterInv, LimiterTypeOK, CallStates
    <2>4. CASE UNCHANGED vars
      BY <2>4 DEF vars
    <2> QED
      BY <2>1, <2>2, <2>3, <2>4 DEF Next, CallStep
  <1>2. LimiterInv /\ [Next]_vars => [Exhausted]_vars
    BY <1>1
  <1> QED
    BY LimiterInvariant, <1>2, PTL DEF Spec, WaitsOnlyWhenExhausted

\* A script leaves an expiry that is already set alone, and time passes alike for
\* the key and for who sleeps until it is gone.
LEMMA SleepersStep ==
  ASSUME LimiterInv, SleepersWakeWithTheWindow, [Next]_vars
  PROVE  SleepersWakeWithTheWindow'
  <1> SUFFICES ASSUME NEW c \in Calls, call'[c].pc = "asleep", call'[c].left > 0
               PROVE  ttl'[call'[c].provider] = call'[c].left
    BY DEF SleepersWakeWithTheWindow, KeyOf
  <1>1. /\ call \in [Calls -> CallStates]
        /\ call[c].provider \in Providers /\ call[c].left \in 0 .. Window
        /\ \A p \in Providers : ttl[p] \in Gone .. Window
    BY DEF LimiterInv, LimiterTypeOK, CallStates
  <1>2. call[c].pc = "asleep" /\ call[c].left > 0
          => ttl[call[c].provider] = call[c].left
    BY DEF SleepersWakeWithTheWindow, KeyOf
  <1>3. ASSUME NEW d \in Calls, Grant(d) \/ Sleep(d), NEW p \in Providers, ttl[p] > 0
        PROVE  ttl'[p] = ttl[p]
    <2>1. ttl' = [ttl EXCEPT ![call[d].provider] = Remaining(call[d].provider)]
      BY <1>3 DEF Grant, Sleep, RunScript, KeyOf
    <2> QED
      BY <1>3, <2>1 DEF Remaining, Exists, Gone, LimiterInv, LimiterTypeOK
  <1>4. ASSUME NEW d \in Calls, Ask(d) \/ Grant(d) \/ Sleep(d) \/ Wake(d) \/ Die(d), d # c
        PROVE  ttl'[call'[c].provider] = call'[c].left
    <2>1. call'[c] = call[c]
      BY <1>1, <1>4 DEF Ask, Grant, Sleep, Wake, Die
    <2>2. ttl[call[c].provider] = call[c].left /\ call[c].left > 0
      BY <1>2, <2>1
    <2> QED
      BY <1>1, <1>3, <1>4, <2>1, <2>2 DEF Ask, Wake, Die
  <1>5. ~(Ask(c) \/ Grant(c) \/ Wake(c) \/ Die(c))
    BY <1>1 DEF Ask, Grant, Wake, Die, CallStates
  <1>6. CASE Sleep(c)
    <2>1. /\ call'[c].provider = call[c].provider
          /\ call'[c].left = Remaining(call[c].provider)
      BY <1>1, <1>6 DEF Sleep, KeyOf, CallStates
    <2>2. ttl' = [ttl EXCEPT ![call[c].provider] = Remaining(call[c].provider)]
      BY <1>6 DEF Sleep, RunScript, KeyOf
    <2> QED
      BY <1>1, <2>1, <2>2 DEF LimiterInv, LimiterTypeOK
  <1>7. CASE Tick
    <2>1. /\ call'[c].pc = call[c].pc /\ call'[c].provider = call[c].provider
          /\ call'[c].left = Less1(call[c].left)
      BY <1>1, <1>7 DEF Tick, CallStates
    <2>2. call[c].left > 0 /\ call'[c].left = call[c].left - 1
      BY <1>1, <2>1, LimiterAssumption DEF Less1
    <2>3. ttl[call[c].provider] = call[c].left
      BY <1>2, <2>1, <2>2
    <2>4. ttl'[call[c].provider] = ttl[call[c].provider] - 1
      BY <1>1, <1>7, <2>2, <2>3, LimiterAssumption DEF Tick, Exists, Gone
    <2> QED
      BY <2>1, <2>2, <2>3, <2>4
  <1>8. CASE UNCHANGED vars
    BY <1>2, <1>8 DEF vars
  <1> QED
    BY <1>4, <1>5, <1>6, <1>7, <1>8 DEF Next, CallStep

\* However many calls ask while others sleep, nobody sleeps longer than the window
\* in which it found no slot.
THEOREM NobodySleepsThroughAWindow == Spec => []SleepersWakeWithTheWindow
  <1>1. Init => SleepersWakeWithTheWindow
    <2> SUFFICES ASSUME Init, NEW c \in Calls PROVE call[c].pc # "asleep"
      BY DEF SleepersWakeWithTheWindow
    <2>1. call[c] \in [pc : {"new"}, provider : Providers, left : {0}]
      BY DEF Init
    <2> QED
      BY <2>1
  <1> QED
    BY <1>1, LimiterInvariant, SleepersStep, PTL DEF Spec

=============================================================================
