------------------------ MODULE SmsAcceptanceProofs -------------------------
(***************************************************************************)
(* Proofs about SmsAcceptance, for any number of requests, keys and ticks. *)
(* AcceptanceInv is inductive: it adds to the properties why a key's row   *)
(* is its latest message, why only an expired row is deleted, and why a    *)
(* row that makes an insert fail is one the second try will find.          *)
(***************************************************************************)
EXTENDS SmsAcceptance, TLAPS

\* What the type of a request gives the steps below.
LEMMA RequestFields ==
  ASSUME AcceptanceTypeOK, NEW r \in Requests
  PROVE  /\ req[r] \in RequestStates
         /\ req[r].now \in Nat
         /\ req[r].retried \in BOOLEAN
         /\ lock[Key(r)] \in Requests \cup {None} \/ Key(r) \notin Keys
         /\ \A k \in Keys : owner[k] # None => owner[k].expiresAt \in Nat
  BY DEF AcceptanceTypeOK, RequestStates, OwnerRows, Key

LEMMA InitInv == Init => AcceptanceInv
  <1> SUFFICES ASSUME Init PROVE AcceptanceInv
    OBVIOUS
  <1>1. AcceptanceTypeOK
    BY AcceptanceAssumption, NoneIsNoRow DEF Init, AcceptanceTypeOK, RequestStates
  <1>2. RowIsLatest /\ DeleterSawItExpired /\ OneMessagePerTerm
    BY DEF Init, RowIsLatest, DeleterSawItExpired, OneMessagePerTerm
  <1>3. InTheWayIsLive /\ AnsweredAreDone /\ RepliesAreLive /\ ConflictIsAbsorbed
    BY DEF Init, InTheWayIsLive, Active, AnsweredAreDone, RepliesAreLive, ConflictIsAbsorbed
  <1> QED
    BY <1>1, <1>2, <1>3 DEF AcceptanceInv

-----------------------------------------------------------------------------

LEMMA AcceptKeepsInv ==
  ASSUME AcceptanceInv, NEW r \in Requests, NEW k \in Keys, AcceptMessage(r, k)
  PROVE  AcceptanceInv'
  <1> USE DEF AcceptMessage
  <1>1. AcceptanceTypeOK'
    BY DEF AcceptanceInv, AcceptanceTypeOK, RequestStates
  <1>2. \A q \in Requests \ {r} : req'[q] = req[q]
    BY DEF AcceptanceInv, AcceptanceTypeOK
  <1>3. req'[r] = [pc |-> "find", key |-> k, now |-> clock, retried |-> FALSE]
    BY DEF AcceptanceInv, AcceptanceTypeOK
  <1>4. RowIsLatest' /\ OneMessagePerTerm'
    BY DEF AcceptanceInv, RowIsLatest, OneMessagePerTerm
  <1>5. DeleterSawItExpired'
    BY <1>2, <1>3 DEF AcceptanceInv, DeleterSawItExpired, Key, AcceptanceTypeOK
  <1>6. InTheWayIsLive'
    <2> SUFFICES ASSUME NEW q \in Requests
                 PROVE  /\ req'[q].pc # "idle" => req'[q].key \in Keys /\ req'[q].now <= clock
                        /\ Active(q)' => clock <= req'[q].now + MaxAge
                        /\ req'[q].pc = "insert" /\ KeyTaken(q)' => Live(q)'
                        /\ req'[q].retried /\ Active(q)' => req'[q].pc = "find" /\ Live(q)'
      BY DEF InTheWayIsLive, Key
    <2>1. CASE q = r
      BY <2>1, <1>3, AcceptanceAssumption
      DEF Active, Key, Live, KeyTaken, AcceptanceInv, AcceptanceTypeOK
    <2>2. CASE q # r
      BY <2>2, <1>2 DEF AcceptanceInv, InTheWayIsLive, Active, Key, Live, KeyTaken
    <2> QED
      BY <2>1, <2>2
  <1>7. RepliesAreLive' /\ AnsweredAreDone'
    BY <1>2, <1>3 DEF AcceptanceInv, RepliesAreLive, AnsweredAreDone, Key
  <1>8. ConflictIsAbsorbed'
    BY <1>2, <1>3 DEF AcceptanceInv, ConflictIsAbsorbed
  <1> QED
    BY <1>1, <1>4, <1>5, <1>6, <1>7, <1>8 DEF AcceptanceInv

LEMMA ReturnKeepsInv ==
  ASSUME AcceptanceInv, NEW r \in Requests, ReturnOwner(r)
  PROVE  AcceptanceInv'
  <1> USE DEF ReturnOwner, GoTo
  <1>1. \A q \in Requests \ {r} : req'[q] = req[q] /\ reply'[q] = reply[q]
    BY DEF AcceptanceInv, AcceptanceTypeOK
  <1>2. /\ req'[r] = [req[r] EXCEPT !.pc = "done"]
        /\ req[r] \in RequestStates
        /\ reply'[r] = owner[Key(r)].msg
    BY DEF AcceptanceInv, AcceptanceTypeOK
  <1>3. /\ req'[r].pc = "done" /\ req'[r].key = req[r].key
        /\ req'[r].now = req[r].now /\ req'[r].retried = req[r].retried
        /\ Key(r) \in Keys
    BY <1>2 DEF RequestStates, AcceptanceInv, InTheWayIsLive
  <1>4. owner[Key(r)] \in OwnerRows
    BY <1>3 DEF AcceptanceInv, AcceptanceTypeOK, Live
  <1>5. AcceptanceTypeOK'
    BY <1>2, <1>4 DEF AcceptanceInv, AcceptanceTypeOK, RequestStates, OwnerRows
  <1>6. RowIsLatest' /\ OneMessagePerTerm'
    BY DEF AcceptanceInv, RowIsLatest, OneMessagePerTerm
  <1>7. DeleterSawItExpired'
    BY <1>1 DEF AcceptanceInv, DeleterSawItExpired, Key, AcceptanceTypeOK
  <1>8. InTheWayIsLive'
    BY <1>1, <1>3 DEF AcceptanceInv, InTheWayIsLive, Active, Key, Live, KeyTaken
  <1>9. RepliesAreLive' /\ AnsweredAreDone'
    <2>1. PICK m \in messages :
            m.id = owner[Key(r)].msg /\ m.key = Key(r) /\ m.at + TTL = owner[Key(r)].expiresAt
      BY <1>3 DEF AcceptanceInv, RowIsLatest, Live
    <2>2. req[r].now < m.at + TTL
      BY <2>1, <1>2, <1>4, AcceptanceAssumption
      DEF Live, OwnerRows, RequestStates, AcceptanceInv, AcceptanceTypeOK, MessageRows
    <2> QED
      BY <1>1, <1>2, <1>3, <2>1, <2>2 DEF AcceptanceInv, RepliesAreLive, AnsweredAreDone, Key
  <1>10. ConflictIsAbsorbed'
    BY <1>1, <1>3 DEF AcceptanceInv, ConflictIsAbsorbed
  <1> QED
    BY <1>5, <1>6, <1>7, <1>8, <1>9, <1>10 DEF AcceptanceInv

LEMMA FindKeepsInv ==
  ASSUME AcceptanceInv, NEW r \in Requests, FindNoOwner(r)
  PROVE  AcceptanceInv'
  <1> USE DEF FindNoOwner, GoTo
  <1>1. \A q \in Requests \ {r} : req'[q] = req[q]
    BY DEF AcceptanceInv, AcceptanceTypeOK
  <1>2. /\ req[r] \in RequestStates
        /\ req'[r].pc = IF Expired(r) THEN "delete" ELSE "insert"
        /\ req'[r].key = req[r].key /\ req'[r].now = req[r].now
        /\ req'[r].retried = req[r].retried
    BY DEF AcceptanceInv, AcceptanceTypeOK, RequestStates
  <1>3. AcceptanceTypeOK'
    BY DEF AcceptanceInv, AcceptanceTypeOK, RequestStates
  <1>4. RowIsLatest' /\ OneMessagePerTerm'
    BY DEF AcceptanceInv, RowIsLatest, OneMessagePerTerm
  <1>5. DeleterSawItExpired'
    BY <1>1 DEF AcceptanceInv, DeleterSawItExpired, Key, AcceptanceTypeOK
  <1>6. InTheWayIsLive'
    <2>1. Key(r) \in Keys /\ ~req[r].retried
      BY <1>2 DEF AcceptanceInv, InTheWayIsLive, Active, RequestStates
    <2>2. ~Expired(r) => owner[Key(r)] = None
      BY <1>2, <2>1 DEF Live, Expired, AcceptanceInv, AcceptanceTypeOK, OwnerRows, RequestStates
    <2> QED
      BY <1>1, <1>2, <2>1, <2>2 DEF AcceptanceInv, InTheWayIsLive, Active, Key, Live, KeyTaken
  <1>7. RepliesAreLive' /\ AnsweredAreDone' /\ ConflictIsAbsorbed'
    BY <1>1, <1>2 DEF AcceptanceInv, RepliesAreLive, AnsweredAreDone, ConflictIsAbsorbed, Key
  <1> QED
    BY <1>3, <1>4, <1>5, <1>6, <1>7 DEF AcceptanceInv

LEMMA DeleteKeepsInv ==
  ASSUME AcceptanceInv, NEW r \in Requests, DeleteExpired(r)
  PROVE  AcceptanceInv'
  <1> USE DEF DeleteExpired, GoTo
  <1>1. \A q \in Requests \ {r} : req'[q] = req[q]
    BY DEF AcceptanceInv, AcceptanceTypeOK
  <1>2. /\ req[r] \in RequestStates
        /\ req'[r].pc = "insert"
        /\ req'[r].key = req[r].key /\ req'[r].now = req[r].now
        /\ req'[r].retried = req[r].retried
    BY DEF AcceptanceInv, AcceptanceTypeOK, RequestStates
  <1>3. Key(r) \in Keys /\ ~req[r].retried
    BY <1>2 DEF AcceptanceInv, InTheWayIsLive, Active, RequestStates
  <1>4. \A k \in Keys : lock'[k] = IF Expired(r) /\ k = Key(r) THEN r ELSE lock[k]
    BY <1>3 DEF AcceptanceInv, AcceptanceTypeOK
  <1>5. AcceptanceTypeOK'
    BY <1>3 DEF AcceptanceInv, AcceptanceTypeOK, RequestStates
  <1>6. RowIsLatest' /\ OneMessagePerTerm'
    BY DEF AcceptanceInv, RowIsLatest, OneMessagePerTerm
  <1>7. DeleterSawItExpired'
    BY <1>1, <1>2, <1>4, NoneIsNoRow
    DEF AcceptanceInv, DeleterSawItExpired, Key, AcceptanceTypeOK, Expired
  <1>8. InTheWayIsLive'
    <2>1. ~Expired(r) => owner[Key(r)] = None \/ Live(r)
      BY <1>2, <1>3 DEF Live, Expired, AcceptanceInv, AcceptanceTypeOK, OwnerRows, RequestStates
    <2>2. Expired(r) => lock'[Key(r)] = r
      BY <1>3, <1>4
    <2>3. \A q \in Requests \ {r} : req[q].pc = "insert" /\ KeyTaken(q)' => KeyTaken(q)
      BY <1>1, <1>4, NoneIsNoRow
      DEF KeyTaken, MayTouch, Key, AcceptanceInv, DeleterSawItExpired, InTheWayIsLive, AcceptanceTypeOK
    <2>4. ASSUME NEW q \in Requests \ {r}
          PROVE  /\ req'[q].pc # "idle" => req'[q].key \in Keys /\ req'[q].now <= clock'
                 /\ Active(q)' => clock' <= req'[q].now + MaxAge
                 /\ req'[q].pc = "insert" /\ KeyTaken(q)' => Live(q)'
                 /\ req'[q].retried /\ Active(q)' => req'[q].pc = "find" /\ Live(q)'
      BY <1>1, <2>3 DEF AcceptanceInv, InTheWayIsLive, Active, Key, Live
    <2>5. /\ req'[r].pc # "idle" => req'[r].key \in Keys /\ req'[r].now <= clock'
          /\ Active(r)' => clock' <= req'[r].now + MaxAge
          /\ req'[r].pc = "insert" /\ KeyTaken(r)' => Live(r)'
          /\ req'[r].retried /\ Active(r)' => req'[r].pc = "find" /\ Live(r)'
      BY <1>2, <1>3, <2>1, <2>2 DEF AcceptanceInv, InTheWayIsLive, Active, Key, Live, KeyTaken
    <2> QED
      BY <2>4, <2>5 DEF InTheWayIsLive, Key
  <1>9. RepliesAreLive' /\ AnsweredAreDone' /\ ConflictIsAbsorbed'
    BY <1>1, <1>2 DEF AcceptanceInv, RepliesAreLive, AnsweredAreDone, ConflictIsAbsorbed, Key
  <1> QED
    BY <1>5, <1>6, <1>7, <1>8, <1>9 DEF AcceptanceInv

LEMMA CreateKeepsInv ==
  ASSUME AcceptanceInv, NEW r \in Requests, CreateMessage(r)
  PROVE  AcceptanceInv'
  <1> DEFINE n == [id |-> r, key |-> Key(r), at |-> req[r].now]
  <1> USE DEF CreateMessage, GoTo
  <1>1. \A q \in Requests \ {r} : req'[q] = req[q] /\ reply'[q] = reply[q]
    BY DEF AcceptanceInv, AcceptanceTypeOK
  <1>2. /\ req[r] \in RequestStates
        /\ req'[r].pc = "done"
        /\ req'[r].key = req[r].key /\ req'[r].now = req[r].now
        /\ req'[r].retried = req[r].retried
        /\ reply'[r] = r
    BY DEF AcceptanceInv, AcceptanceTypeOK, RequestStates
  <1>3. /\ Key(r) \in Keys /\ req[r].now \in Nat
        /\ req[r].now <= clock /\ clock <= req[r].now + MaxAge
    BY <1>2 DEF AcceptanceInv, InTheWayIsLive, Active, RequestStates
  <1>4. \A k \in Keys :
          /\ lock'[k] = IF k = Key(r) THEN None ELSE lock[k]
          /\ owner'[k] = IF k = Key(r) THEN [msg |-> r, expiresAt |-> req[r].now + TTL]
                         ELSE owner[k]
    BY <1>3 DEF AcceptanceInv, AcceptanceTypeOK
  <1>5. owner'[Key(r)] # None /\ owner'[Key(r)].msg = r
          /\ owner'[Key(r)].expiresAt = req[r].now + TTL
    BY <1>3, <1>4, NoneIsNoRow, AcceptanceAssumption DEF OwnerRows
  <1>6. messages' = messages \cup {n} /\ n \in MessageRows
    BY <1>3 DEF MessageRows
  <1>7. \A m \in messages : m.key = Key(r) => m.at + TTL <= req[r].now
    <2> SUFFICES ASSUME NEW m \in messages, m.key = Key(r)
                 PROVE  m.at + TTL <= req[r].now
      OBVIOUS
    <2>1. owner[Key(r)] # None /\ m.at + TTL <= owner[Key(r)].expiresAt
      BY DEF AcceptanceInv, RowIsLatest
    <2>2. owner[Key(r)].expiresAt <= req[r].now
      BY <1>3, <2>1, NoneIsNoRow
      DEF KeyTaken, AcceptanceInv, DeleterSawItExpired, AcceptanceTypeOK
    <2> QED
      BY <1>3, <2>1, <2>2, AcceptanceAssumption
      DEF AcceptanceInv, AcceptanceTypeOK, OwnerRows, MessageRows
  <1>8. AcceptanceTypeOK'
    <2>1. [msg |-> r, expiresAt |-> req[r].now + TTL] \in OwnerRows
      BY <1>3, AcceptanceAssumption DEF OwnerRows
    <2> QED
      BY <1>6, <2>1 DEF AcceptanceInv, AcceptanceTypeOK, RequestStates
  <1>9. RowIsLatest'
    <2>1. ASSUME NEW k \in Keys, owner'[k] # None
          PROVE  \E m \in messages' :
                   m.id = owner'[k].msg /\ m.key = k /\ m.at + TTL = owner'[k].expiresAt
      <3>1. CASE k = Key(r)
        BY <3>1, <1>5, <1>6
      <3>2. CASE k # Key(r)
        BY <3>2, <2>1, <1>4, <1>6 DEF AcceptanceInv, RowIsLatest
      <3> QED
        BY <3>1, <3>2
    <2>2. ASSUME NEW m \in messages'
          PROVE  owner'[m.key] # None /\ m.at + TTL <= owner'[m.key].expiresAt
      <3>1. CASE m.key = Key(r)
        <4>1. m.at \in Nat /\ m.at <= req[r].now
          BY <3>1, <1>3, <1>6, <1>7, AcceptanceAssumption
          DEF AcceptanceInv, AcceptanceTypeOK, MessageRows
        <4> QED
          BY <3>1, <4>1, <1>3, <1>5, AcceptanceAssumption
      <3>2. CASE m.key # Key(r)
        <4>1. m \in messages /\ m.key \in Keys
          BY <3>2, <1>6 DEF AcceptanceInv, AcceptanceTypeOK, MessageRows
        <4> QED
          BY <3>2, <4>1, <1>4 DEF AcceptanceInv, RowIsLatest
      <3> QED
        BY <3>1, <3>2
    <2> QED
      BY <2>1, <2>2 DEF RowIsLatest
  <1>10. DeleterSawItExpired'
    <2> SUFFICES ASSUME NEW k \in Keys, lock'[k] # None
                 PROVE  /\ req'[lock'[k]].pc = "insert"
                        /\ req'[lock'[k]].key = k
                        /\ owner'[k] # None
                        /\ owner'[k].expiresAt <= req'[lock'[k]].now
      BY DEF DeleterSawItExpired, Key
    <2>1. k # Key(r) /\ lock'[k] = lock[k] /\ owner'[k] = owner[k]
      BY <1>4
    <2>2. lock[k] \in Requests \ {r}
      BY <2>1 DEF AcceptanceInv, AcceptanceTypeOK, DeleterSawItExpired, Key
    <2> QED
      BY <1>1, <2>1, <2>2 DEF AcceptanceInv, DeleterSawItExpired, Key
  <1>11. InTheWayIsLive'
    <2>1. ASSUME NEW q \in Requests \ {r}
          PROVE  /\ req'[q].pc # "idle" => req'[q].key \in Keys /\ req'[q].now <= clock'
                 /\ Active(q)' => clock' <= req'[q].now + MaxAge
                 /\ req'[q].pc = "insert" /\ KeyTaken(q)' => Live(q)'
                 /\ req'[q].retried /\ Active(q)' => req'[q].pc = "find" /\ Live(q)'
      <3>1. req'[q] = req[q] /\ req[q] \in RequestStates /\ req[q].now \in Nat
        BY <1>1 DEF AcceptanceInv, AcceptanceTypeOK, RequestStates
      <3>2. /\ req[q].pc # "idle" => Key(q) \in Keys /\ req[q].now <= clock
            /\ Active(q) => clock <= req[q].now + MaxAge
            /\ req[q].pc = "insert" /\ KeyTaken(q) => Live(q)
            /\ req[q].retried /\ Active(q) => req[q].pc = "find" /\ Live(q)
        BY DEF AcceptanceInv, InTheWayIsLive
      <3>3. CASE Key(q) # Key(r) \/ req[q].pc = "idle"
        BY <3>1, <3>2, <3>3, <1>4 DEF Active, Live, KeyTaken, Key
      <3>4. CASE Key(q) = Key(r) /\ req[q].pc # "idle"
        <4>1. owner'[Key(q)] # None /\ owner'[Key(q)].expiresAt > req[q].now
          <5>1. req[q].now <= req[r].now + MaxAge
            BY <3>1, <3>2, <3>4, <1>3, AcceptanceAssumption
            DEF AcceptanceInv, AcceptanceTypeOK
          <5> QED
            BY <5>1, <3>1, <3>4, <1>3, <1>5, AcceptanceAssumption
        <4>2. Live(q)'
          BY <4>1, <3>1 DEF Live, Key
        <4> QED
          BY <4>2, <3>1, <3>2 DEF Active, Key
      <3> QED
        BY <3>3, <3>4
    <2>2. ~Active(r)' /\ req'[r].pc = "done"
      BY <1>2 DEF Active
    <2> QED
      BY <2>1, <2>2, <1>2, <1>3 DEF InTheWayIsLive, Key
  <1>12. OneMessagePerTerm'
    <2> SUFFICES ASSUME NEW m \in messages', NEW p \in messages', m.key = p.key, m # p
                 PROVE  m.at + TTL <= p.at \/ p.at + TTL <= m.at
      BY DEF OneMessagePerTerm
    <2>1. CASE m \in messages /\ p \in messages
      BY <2>1 DEF AcceptanceInv, OneMessagePerTerm
    <2>2. CASE m = n \/ p = n
      BY <2>2, <1>6, <1>7
    <2> QED
      BY <2>1, <2>2, <1>6
  <1>13. RepliesAreLive' /\ AnsweredAreDone'
    <2>1. req[r].now < n.at + TTL
      BY <1>3, AcceptanceAssumption
    <2>2. AnsweredAreDone'
      BY <1>1, <1>2 DEF AcceptanceInv, AnsweredAreDone
    <2>3. ASSUME NEW q \in Requests, reply'[q] # None
          PROVE  \E m \in messages' :
                   m.id = reply'[q] /\ m.key = req'[q].key /\ req'[q].now < m.at + TTL
      <3>1. CASE q = r
        BY <3>1, <2>1, <1>2, <1>6 DEF Key
      <3>2. CASE q # r
        BY <3>2, <2>3, <1>1, <1>6 DEF AcceptanceInv, RepliesAreLive, Key
      <3> QED
        BY <3>1, <3>2
    <2> QED
      BY <2>2, <2>3 DEF RepliesAreLive, Key
  <1>14. ConflictIsAbsorbed'
    BY <1>1, <1>2 DEF AcceptanceInv, ConflictIsAbsorbed
  <1> QED
    BY <1>8, <1>9, <1>10, <1>11, <1>12, <1>13, <1>14 DEF AcceptanceInv

\* The failed insert leaves a live row behind, which the second try finds.
LEMMA ViolationKeepsInv ==
  ASSUME AcceptanceInv, NEW r \in Requests, UniqueViolation(r)
  PROVE  AcceptanceInv'
  <1> USE DEF UniqueViolation, GoTo
  <1>1. \A q \in Requests \ {r} : req'[q] = req[q]
    BY DEF AcceptanceInv, AcceptanceTypeOK
  <1>2. ~req[r].retried /\ Live(r) /\ Key(r) \in Keys
    BY DEF AcceptanceInv, InTheWayIsLive, Active
  <1>3. /\ req[r] \in RequestStates
        /\ req'[r].pc = "find" /\ req'[r].retried
        /\ req'[r].key = req[r].key /\ req'[r].now = req[r].now
    BY <1>2 DEF AcceptanceInv, AcceptanceTypeOK, RequestStates
  <1>4. AcceptanceTypeOK'
    BY <1>2 DEF AcceptanceInv, AcceptanceTypeOK, RequestStates
  <1>5. RowIsLatest' /\ OneMessagePerTerm'
    BY DEF AcceptanceInv, RowIsLatest, OneMessagePerTerm
  <1>6. DeleterSawItExpired'
    <2>1. \A k \in Keys : lock[k] # r
      BY NoneIsNoRow DEF AcceptanceInv, DeleterSawItExpired, KeyTaken, AcceptanceTypeOK
    <2> QED
      BY <1>1, <2>1 DEF AcceptanceInv, DeleterSawItExpired, Key, AcceptanceTypeOK
  <1>7. InTheWayIsLive'
    BY <1>1, <1>2, <1>3 DEF AcceptanceInv, InTheWayIsLive, Active, Key, Live, KeyTaken
  <1>8. RepliesAreLive' /\ AnsweredAreDone' /\ ConflictIsAbsorbed'
    BY <1>1, <1>3 DEF AcceptanceInv, RepliesAreLive, AnsweredAreDone, ConflictIsAbsorbed, Key
  <1> QED
    BY <1>4, <1>5, <1>6, <1>7, <1>8 DEF AcceptanceInv

LEMMA DeathKeepsInv ==
  ASSUME AcceptanceInv, NEW r \in Requests, RequestDies(r)
  PROVE  AcceptanceInv'
  <1> USE DEF RequestDies, GoTo
  <1>1. \A q \in Requests \ {r} : req'[q] = req[q]
    BY DEF AcceptanceInv, AcceptanceTypeOK
  <1>2. /\ req[r] \in RequestStates
        /\ req'[r].pc = "dead"
        /\ req'[r].key = req[r].key /\ req'[r].now = req[r].now
        /\ req'[r].retried = req[r].retried
    BY DEF AcceptanceInv, AcceptanceTypeOK, RequestStates
  <1>3. Key(r) \in Keys
    BY DEF AcceptanceInv, InTheWayIsLive, Active
  <1>4. \A k \in Keys : lock'[k] = IF lock[k] = r THEN None ELSE lock[k]
    BY <1>3 DEF AcceptanceInv, AcceptanceTypeOK, DeleterSawItExpired
  <1>5. AcceptanceTypeOK'
    BY <1>3 DEF AcceptanceInv, AcceptanceTypeOK, RequestStates
  <1>6. RowIsLatest' /\ OneMessagePerTerm'
    BY DEF AcceptanceInv, RowIsLatest, OneMessagePerTerm
  <1>7. DeleterSawItExpired'
    BY <1>1, <1>4 DEF AcceptanceInv, DeleterSawItExpired, Key, AcceptanceTypeOK
  <1>8. InTheWayIsLive'
    <2>1. \A q \in Requests \ {r} : Key(q) \in Keys => (KeyTaken(q)' => KeyTaken(q))
      BY <1>1, <1>4, NoneIsNoRow DEF KeyTaken, Key
    <2> QED
      BY <1>1, <1>2, <2>1 DEF AcceptanceInv, InTheWayIsLive, Active, Key, Live
  <1>9. RepliesAreLive' /\ AnsweredAreDone' /\ ConflictIsAbsorbed'
    BY <1>1, <1>2 DEF AcceptanceInv, RepliesAreLive, AnsweredAreDone, ConflictIsAbsorbed, Key, Active
  <1> QED
    BY <1>5, <1>6, <1>7, <1>8, <1>9 DEF AcceptanceInv

LEMMA TickKeepsInv ==
  ASSUME AcceptanceInv, Tick
  PROVE  AcceptanceInv'
  <1> USE DEF Tick
  <1>1. AcceptanceTypeOK'
    BY DEF AcceptanceInv, AcceptanceTypeOK
  <1>2. RowIsLatest' /\ DeleterSawItExpired' /\ OneMessagePerTerm'
    BY DEF AcceptanceInv, RowIsLatest, DeleterSawItExpired, OneMessagePerTerm, Key
  <1>3. InTheWayIsLive'
    <2> SUFFICES ASSUME NEW r \in Requests
                 PROVE  /\ req[r].pc # "idle" => Key(r) \in Keys /\ req[r].now <= clock'
                        /\ Active(r) => clock' <= req[r].now + MaxAge
                        /\ req[r].pc = "insert" /\ KeyTaken(r) => Live(r)
                        /\ req[r].retried /\ Active(r) => req[r].pc = "find" /\ Live(r)
      BY DEF InTheWayIsLive, Active, Key, Live, KeyTaken
    <2>1. req[r].now \in Nat /\ clock \in Nat /\ MaxAge \in Nat
      BY AcceptanceAssumption DEF AcceptanceInv, AcceptanceTypeOK, RequestStates
    <2> QED
      BY <2>1 DEF AcceptanceInv, InTheWayIsLive
  <1>4. RepliesAreLive' /\ AnsweredAreDone' /\ ConflictIsAbsorbed'
    BY DEF AcceptanceInv, RepliesAreLive, AnsweredAreDone, ConflictIsAbsorbed, Key
  <1> QED
    BY <1>1, <1>2, <1>3, <1>4 DEF AcceptanceInv

LEMMA StutterKeepsInv ==
  ASSUME AcceptanceInv, UNCHANGED vars
  PROVE  AcceptanceInv'
  BY DEF vars, AcceptanceInv, AcceptanceTypeOK, RowIsLatest, DeleterSawItExpired,
         InTheWayIsLive, AnsweredAreDone, OneMessagePerTerm, RepliesAreLive,
         ConflictIsAbsorbed, Active, Key, Live, KeyTaken

-----------------------------------------------------------------------------

\* AcceptanceInv holds in every state of the acceptance transactions of
\* createOrGetMessage.
THEOREM AcceptanceInvariant == Spec => []AcceptanceInv
  <1>1. AcceptanceInv /\ [Next]_vars => AcceptanceInv'
    <2> SUFFICES ASSUME AcceptanceInv, [Next]_vars PROVE AcceptanceInv'
      OBVIOUS
    <2>1. ASSUME NEW r \in Requests, NEW k \in Keys, AcceptMessage(r, k)
          PROVE  AcceptanceInv'
      BY <2>1, AcceptKeepsInv
    <2>2. ASSUME NEW r \in Requests, RequestStep(r)
          PROVE  AcceptanceInv'
      BY <2>2, ReturnKeepsInv, FindKeepsInv, DeleteKeepsInv, CreateKeepsInv, ViolationKeepsInv
      DEF RequestStep
    <2>3. ASSUME NEW r \in Requests, RequestDies(r)
          PROVE  AcceptanceInv'
      BY <2>3, DeathKeepsInv
    <2>4. CASE Tick
      BY <2>4, TickKeepsInv
    <2>5. CASE UNCHANGED vars
      BY <2>5, StutterKeepsInv
    <2> QED
      BY <2>1, <2>2, <2>3, <2>4, <2>5 DEF Next
  <1> QED
    BY InitInv, <1>1, PTL DEF Spec

\* The variables keep their types.
THEOREM AcceptanceTypeCorrect == Spec => []AcceptanceTypeOK
  <1>1. AcceptanceInv => AcceptanceTypeOK
    BY DEF AcceptanceInv
  <1> QED
    BY AcceptanceInvariant, <1>1, PTL

\* Two messages of one key came in at least a term apart, however many requests
\* race for the key (the unique index and the conditional delete).
THEOREM KeysCreateOneMessagePerTerm == Spec => []OneMessagePerTerm
  <1>1. AcceptanceInv => OneMessagePerTerm
    BY DEF AcceptanceInv
  <1> QED
    BY AcceptanceInvariant, <1>1, PTL

\* No request is answered with a message of another key, or one whose term was
\* over when it came in.
THEOREM RepliesNameLiveMessages == Spec => []RepliesAreLive
  <1>1. AcceptanceInv => RepliesAreLive
    BY DEF AcceptanceInv
  <1> QED
    BY AcceptanceInvariant, <1>1, PTL

\* The single retry of createOrGetMessage suffices: no caller sees the
\* unique-key error, provided a request takes less than a term.
THEOREM OneRetrySuffices == Spec => []ConflictIsAbsorbed
  <1>1. AcceptanceInv => ConflictIsAbsorbed
    BY DEF AcceptanceInv
  <1> QED
    BY AcceptanceInvariant, <1>1, PTL

\* The holder of a key's lock has deleted the row it found expired, and has only
\* its insert before it: there is no cycle of waiting requests.
THEOREM WaitingIsNotInVain == Spec => []NobodyWaitsInVain
  <1>1. AcceptanceInv => NobodyWaitsInVain
    <2> SUFFICES ASSUME AcceptanceInv, NEW r \in Requests, Waits(r)
                 PROVE  LET holder == lock[Key(r)] IN
                        req[holder].pc = "insert" /\ MayTouch(holder) /\ ~KeyTaken(holder)
      BY DEF NobodyWaitsInVain
    <2>1. Key(r) \in Keys
      BY DEF Waits, AcceptanceInv, InTheWayIsLive
    <2>2. lock[Key(r)] # None
      BY DEF Waits, MayTouch
    <2>3. req[lock[Key(r)]].pc = "insert" /\ Key(lock[Key(r)]) = Key(r)
      BY <2>1, <2>2 DEF AcceptanceInv, DeleterSawItExpired
    <2> QED
      BY <2>3 DEF MayTouch, KeyTaken
  <1> QED
    BY AcceptanceInvariant, <1>1, PTL

\* Each of a request's own steps brings it nearer to its end, in particular the
\* second find, whose row no other request can have taken away.
THEOREM RequestsTakeFourStatements == Spec => RequestsAreShort
  <1>1. AcceptanceInv /\ [Next]_vars =>
          [\A r \in Requests :
             Active(r) /\ req'[r] # req[r] => StepsLeft(r)' < StepsLeft(r)]_vars
    <2> SUFFICES ASSUME AcceptanceInv, Next, NEW r \in Requests, Active(r), req'[r] # req[r]
                 PROVE  StepsLeft(r)' < StepsLeft(r)
      OBVIOUS
    <2>1. req[r] \in RequestStates /\ req \in [Requests -> RequestStates]
      BY DEF AcceptanceInv, AcceptanceTypeOK
    <2>2. req[r].retried => req[r].pc = "find" /\ Live(r)
      BY DEF AcceptanceInv, InTheWayIsLive
    <2>3. StepsLeft(r) \in Nat /\ StepsLeft(r) > 0
      BY <2>1 DEF Active, StepsLeft, RequestStates
    <2>4. ASSUME req'[r].pc \in {"done", "conflict", "dead"}
          PROVE  StepsLeft(r)' < StepsLeft(r)
      <3>1. StepsLeft(r)' = 0
        BY <2>4 DEF StepsLeft
      <3> QED
        BY <2>3, <3>1
    <2>5. \A q \in Requests, k \in Keys : ~AcceptMessage(q, k)
      <3> SUFFICES ASSUME NEW q \in Requests, NEW k \in Keys, AcceptMessage(q, k)
                   PROVE  FALSE
        OBVIOUS
      <3>1. q # r
        BY DEF AcceptMessage, Active
      <3> QED
        BY <2>1, <3>1 DEF AcceptMessage
    <2>6. \A q \in Requests \ {r} : ~RequestStep(q) /\ ~RequestDies(q)
      BY <2>1 DEF RequestStep, ReturnOwner, FindNoOwner, DeleteExpired, CreateMessage,
                  UniqueViolation, RequestDies, GoTo
    <2>7. CASE ReturnOwner(r) \/ CreateMessage(r) \/ RequestDies(r)
      <3>1. req'[r].pc \in {"done", "dead"}
        BY <2>1, <2>7 DEF ReturnOwner, CreateMessage, RequestDies, GoTo, RequestStates
      <3> QED
        BY <2>4, <3>1
    <2>8. CASE FindNoOwner(r)
      <3>1. StepsLeft(r) = 4
        BY <2>2, <2>8 DEF FindNoOwner, StepsLeft
      <3>2. req'[r].pc \in {"delete", "insert"}
        BY <2>1, <2>8 DEF FindNoOwner, GoTo
      <3> QED
        BY <3>1, <3>2 DEF StepsLeft
    <2>9. CASE DeleteExpired(r)
      <3>1. req[r].pc = "delete" /\ req'[r].pc = "insert"
        BY <2>1, <2>9 DEF DeleteExpired, GoTo
      <3> QED
        BY <3>1 DEF StepsLeft
    <2>10. CASE UniqueViolation(r)
      <3>1. req[r].pc = "insert" /\ ~req[r].retried
        BY <2>2, <2>10 DEF UniqueViolation
      <3>2. req'[r].pc = "find" /\ req'[r].retried
        BY <2>1, <2>10, <3>1 DEF UniqueViolation, RequestStates
      <3> QED
        BY <3>1, <3>2 DEF StepsLeft
    <2>11. CASE Tick
      BY <2>11 DEF Tick
    <2> QED
      BY <2>5, <2>6, <2>7, <2>8, <2>9, <2>10, <2>11 DEF Next, RequestStep
  <1> QED
    BY AcceptanceInvariant, <1>1, PTL DEF Spec, RequestsAreShort

\* The table of keys behaves as IdempotencySpec says: a key changes hands only
\* when its term is over for the request that takes it.
THEOREM KeysImplementIdempotency == Spec => ImplementsIdempotency
  <1>1. Init => IdempotentKeys!Init
    BY DEF Init, IdempotentKeys!Init
  <1>2. AcceptanceInv /\ [Next]_vars => [IdempotentKeys!Next]_owner
    <2> SUFFICES ASSUME AcceptanceInv, [Next]_vars
                 PROVE  [IdempotentKeys!Next]_owner
      OBVIOUS
    <2>1. ASSUME NEW r \in Requests, CreateMessage(r)
          PROVE  IdempotentKeys!Next
      <3>1. Key(r) \in Keys /\ req[r].now \in Nat
        BY <2>1 DEF CreateMessage, AcceptanceInv, AcceptanceTypeOK, InTheWayIsLive, RequestStates
      <3>2. /\ \A k \in Keys \ {Key(r)} : owner'[k] = owner[k]
            /\ owner'[Key(r)] = [msg |-> r, expiresAt |-> req[r].now + TTL]
        BY <2>1, <3>1 DEF CreateMessage, AcceptanceInv, AcceptanceTypeOK
      <3>3. owner'[Key(r)] # None
        BY <3>1, <3>2, NoneIsNoRow, AcceptanceAssumption DEF OwnerRows
      <3>4. owner[Key(r)] # None =>
              /\ owner[Key(r)].expiresAt <= req[r].now
              /\ owner[Key(r)].expiresAt \in Nat
        BY <2>1, <3>1, NoneIsNoRow
        DEF CreateMessage, MayTouch, KeyTaken, AcceptanceInv, DeleterSawItExpired,
            AcceptanceTypeOK, OwnerRows
      <3>5. owner[Key(r)] # None => owner'[Key(r)].expiresAt >= owner[Key(r)].expiresAt + TTL
        BY <3>1, <3>2, <3>4, AcceptanceAssumption
      <3>6. IdempotentKeys!Claim(Key(r))
        BY <3>1, <3>2, <3>3, <3>5 DEF IdempotentKeys!Claim
      <3> QED
        BY <3>1, <3>6 DEF IdempotentKeys!Next
    <2>2. CASE \E r \in Requests, k \in Keys : AcceptMessage(r, k)
      BY <2>2 DEF AcceptMessage
    <2>3. CASE \E r \in Requests : \/ ReturnOwner(r) \/ FindNoOwner(r) \/ DeleteExpired(r)
                                   \/ UniqueViolation(r) \/ RequestDies(r)
      BY <2>3 DEF ReturnOwner, FindNoOwner, DeleteExpired, UniqueViolation, RequestDies
    <2>4. CASE Tick
      BY <2>4 DEF Tick
    <2>5. CASE UNCHANGED vars
      BY <2>5 DEF vars
    <2> QED
      BY <2>1, <2>2, <2>3, <2>4, <2>5 DEF Next, RequestStep
  <1> QED
    BY AcceptanceInvariant, <1>1, <1>2, PTL
    DEF Spec, ImplementsIdempotency, IdempotentKeys!Spec

=============================================================================
