------------------------- MODULE SmsRetentionProofs --------------------------
(***************************************************************************)
(* A proof about SmsRetention, for any number of messages, purges and      *)
(* batch size: what a purge selected stays finished until it is deleted,   *)
(* unless it is requeued, since the requeue is the only way out of a       *)
(* terminal status.                                                        *)
(***************************************************************************)
EXTENDS SmsRetention, TLAPS

PurgeStates == [ids : SUBSET Messages, table : 1 .. 4, deleted : SUBSET (Messages \X Tables)]

LEMMA ChildrenAreTables ==
  /\ Len(Children) = 3
  /\ Tables = {"resolutions", "attempts", "events"}
  /\ \A i \in 1 .. 3 : Children[i] \in Tables
  BY DEF Children, Tables

\* A deleted row stays deleted, since its retention has elapsed.
GoneStayGone ==
  \A p \in Purges : purge[p].ids \subseteq due

RetentionInv == RetentionTypeOK /\ GoneStayGone /\ SelectedAreFinished

\* The table has no edge out of a terminal status, nor out of no row.
LEMMA TerminalHasNoEdge ==
  \A s \in TerminalStatuses \cup {NoMessage}, to \in Statuses : ~IsValidTransition(s, to)
  BY DEF TerminalStatuses, NoMessage, IsValidTransition, TransitionTable, Statuses

LEMMA InsertKeepsSelection ==
  ASSUME RetentionTypeOK, NEW m \in Messages, NEW tables \in SUBSET Tables, Insert(m, tables)
  PROVE  /\ rows' \in [Messages -> SUBSET Tables]
         /\ purge' \in [Purges -> PurgeStates]
         /\ \A p \in Purges : purge'[p].ids = purge[p].ids
  BY DEF Insert, RetentionTypeOK, PurgeStates

LEMMA InsertedAreTables ==
  ASSUME NEW from, NEW to
  PROVE  InsertedWith(from, to) \subseteq SUBSET Tables
  BY ChildrenAreTables DEF InsertedWith

LEMMA InitInv == Init => RetentionInv
  BY DEF Init, RetentionInv, RetentionTypeOK, GoneStayGone, SelectedAreFinished,
         NoPurge, Statuses, NoMessage

LEMMA MessageKeepsInv ==
  ASSUME RetentionInv, NEW m \in Messages, MessageStep(m)
  PROVE  RetentionInv'
  <1> USE DEF RetentionInv
  <1>1. CASE CreateMessage(m)
    <2>1. /\ rows' \in [Messages -> SUBSET Tables]
          /\ purge' \in [Purges -> PurgeStates]
          /\ \A p \in Purges : purge'[p].ids = purge[p].ids
      BY <1>1, InsertKeepsSelection, ChildrenAreTables DEF CreateMessage
    <2>2. \A p \in Purges : m \notin purge[p].ids
      BY <1>1 DEF CreateMessage, GoneStayGone
    <2>3. RetentionTypeOK'
      BY <1>1, <2>1 DEF CreateMessage, RetentionTypeOK, PurgeStates, Statuses
    <2>4. GoneStayGone' /\ SelectedAreFinished'
      BY <1>1, <2>1, <2>2
      DEF CreateMessage, RetentionTypeOK, GoneStayGone, SelectedAreFinished, TerminalStatuses
    <2> QED
      BY <2>3, <2>4
  <1>2. ASSUME NEW to \in Statuses, ChangeStatus(m, to)
        PROVE  RetentionInv'
    <2>1. /\ rows' \in [Messages -> SUBSET Tables]
          /\ purge' \in [Purges -> PurgeStates]
          /\ \A p \in Purges : purge'[p].ids = purge[p].ids
      BY <1>2, InsertKeepsSelection, InsertedAreTables DEF ChangeStatus
    <2>2. status[m] \notin TerminalStatuses \cup {NoMessage}
      BY <1>2, TerminalHasNoEdge DEF ChangeStatus
    <2>3. RetentionTypeOK'
      BY <1>2, <2>1 DEF ChangeStatus, RetentionTypeOK, PurgeStates, Statuses
    <2>4. GoneStayGone' /\ SelectedAreFinished'
      BY <1>2, <2>1, <2>2
      DEF ChangeStatus, RetentionTypeOK, GoneStayGone, SelectedAreFinished, TerminalStatuses
    <2> QED
      BY <2>3, <2>4
  <1>3. CASE AmbiguousAnswer(m)
    <2>1. /\ rows' \in [Messages -> SUBSET Tables]
          /\ purge' \in [Purges -> PurgeStates]
          /\ \A p \in Purges : purge'[p].ids = purge[p].ids
      BY <1>3, InsertKeepsSelection, ChildrenAreTables DEF AmbiguousAnswer
    <2>3. RetentionTypeOK'
      BY <1>3, <2>1 DEF AmbiguousAnswer, RetentionTypeOK, PurgeStates, Statuses
    <2>4. GoneStayGone' /\ SelectedAreFinished'
      BY <1>3, <2>1
      DEF AmbiguousAnswer, RetentionTypeOK, GoneStayGone, SelectedAreFinished, TerminalStatuses
    <2> QED
      BY <2>3, <2>4
  <1>4. CASE ResetForRequeue(m)
    <2>1. /\ rows' \in [Messages -> SUBSET Tables]
          /\ purge' \in [Purges -> PurgeStates]
          /\ \A p \in Purges : purge'[p].ids = purge[p].ids
      BY <1>4, InsertKeepsSelection, ChildrenAreTables DEF ResetForRequeue
    <2>2. \A p \in Purges : m \in purge[p].ids => m \in reopened'
      BY <1>4 DEF ResetForRequeue
    <2>3. RetentionTypeOK'
      <3>1. status' \in [Messages -> Statuses \cup {NoMessage}]
        BY <1>4 DEF ResetForRequeue, RetentionTypeOK, Statuses
      <3>2. reopened' \subseteq Messages /\ faults' \in Nat
        BY <1>4 DEF ResetForRequeue, RetentionTypeOK
      <3> QED
        BY <1>4, <2>1, <3>1, <3>2 DEF ResetForRequeue, RetentionTypeOK, PurgeStates
    <2>4. GoneStayGone' /\ SelectedAreFinished'
      BY <1>4, <2>1, <2>2
      DEF ResetForRequeue, RetentionTypeOK, GoneStayGone, SelectedAreFinished, TerminalStatuses
    <2> QED
      BY <2>3, <2>4
  <1>5. CASE RetentionElapses(m)
    BY <1>5 DEF RetentionElapses, RetentionTypeOK, GoneStayGone, SelectedAreFinished
  <1> QED
    BY <1>1, <1>2, <1>3, <1>4, <1>5 DEF MessageStep

\* When a purge ends, what the others hold is still marked as reopened.
LEMMA EndKeepsInv ==
  ASSUME RetentionInv, NEW p \in Purges, EndPurge(p), UNCHANGED <<due, calls>>,
         rows' = rows
         \/ rows' = [m \in Messages |-> IF m \in purge[p].ids THEN {} ELSE rows[m]],
         faults' = faults \/ faults' = faults + 1,
         status' = status
         \/ status' = [m \in Messages |-> IF m \in purge[p].ids THEN NoMessage ELSE status[m]]
  PROVE  RetentionInv'
  <1> USE DEF RetentionInv
  <1>1. \A q \in Purges : purge'[q].ids = IF q = p THEN {} ELSE purge[q].ids
    BY DEF EndPurge, NoPurge, RetentionTypeOK
  <1>2. RetentionTypeOK'
    <2>1. purge' \in [Purges -> [ids : SUBSET Messages, table : 1 .. 4,
                                 deleted : SUBSET (Messages \X Tables)]]
      BY DEF EndPurge, NoPurge, RetentionTypeOK
    <2>2. status' \in [Messages -> Statuses \cup {NoMessage}]
      BY DEF RetentionTypeOK
    <2>3. rows' \in [Messages -> SUBSET Tables]
      BY DEF RetentionTypeOK
    <2> QED
      BY <2>1, <2>2, <2>3 DEF EndPurge, RetentionTypeOK
  <1>3. GoneStayGone'
    BY <1>1 DEF GoneStayGone
  <1>4. SelectedAreFinished'
    <2> SUFFICES ASSUME NEW q \in Purges, NEW m \in purge'[q].ids
                 PROVE  status'[m] \in TerminalStatuses \cup {NoMessage} \/ m \in reopened'
      BY DEF SelectedAreFinished, TerminalStatuses
    <2>1. q # p /\ m \in purge[q].ids /\ m \in Messages
      BY <1>1 DEF RetentionTypeOK
    <2>2. m \in reopened => m \in reopened'
      BY <2>1 DEF EndPurge
    <2>3. status'[m] \in {status[m], NoMessage}
      BY <2>1
    <2> QED
      BY <2>1, <2>2, <2>3 DEF SelectedAreFinished
  <1> QED
    BY <1>2, <1>3, <1>4

LEMMA PurgeKeepsInv ==
  ASSUME RetentionInv, NEW p \in Purges, PurgeStep(p) \/ PurgeAborts(p)
  PROVE  RetentionInv'
  <1>1. ASSUME NEW ids \in SUBSET Messages, SelectExpired(p, ids)
        PROVE  RetentionInv'
    <2>1. \A q \in Purges : purge'[q].ids = IF q = p THEN ids ELSE purge[q].ids
      BY <1>1 DEF SelectExpired, NoPurge, RetentionInv, RetentionTypeOK
    <2>2. \A m \in ids : m \in due /\ status[m] \in TerminalStatuses
      BY <1>1 DEF SelectExpired, Expired
    <2>3. purge' \in [Purges -> PurgeStates]
      BY <1>1 DEF SelectExpired, NoPurge, RetentionInv, RetentionTypeOK, PurgeStates
    <2> QED
      BY <1>1, <2>1, <2>2, <2>3
      DEF PurgeStates, SelectExpired, RetentionInv, RetentionTypeOK, GoneStayGone, SelectedAreFinished
  <1>2. CASE DeleteChildren(p)
    <2>1. DOMAIN purge' = Purges /\ \A q \in Purges : purge'[q].ids = purge[q].ids
      BY <1>2 DEF DeleteChildren, RetentionInv, RetentionTypeOK
    <2> QED
      BY <1>2, <2>1
      DEF DeleteChildren, RetentionInv, RetentionTypeOK, GoneStayGone, SelectedAreFinished
  <1>3. CASE DeleteMessages(p)
    BY <1>3, EndKeepsInv DEF DeleteMessages
  <1>4. CASE ForeignKeyViolation(p)
    BY <1>4, EndKeepsInv DEF ForeignKeyViolation
  <1>5. CASE PurgeAborts(p)
    BY <1>5, EndKeepsInv DEF PurgeAborts
  <1> QED
    BY <1>1, <1>2, <1>3, <1>4, <1>5 DEF PurgeStep

\* Only a requeue can bring back what a purge has selected.
THEOREM SelectionInvariant == Spec => []RetentionInv
  <1>1. RetentionInv /\ [Next]_vars => RetentionInv'
    <2>1. CASE UNCHANGED vars
      BY <2>1 DEF vars, RetentionInv, RetentionTypeOK, GoneStayGone, SelectedAreFinished
    <2> QED
      BY <2>1, MessageKeepsInv, PurgeKeepsInv DEF Next
  <1> QED
    BY InitInv, <1>1, PTL DEF Spec

\* The variables keep their types.
THEOREM RetentionTypeCorrect == Spec => []RetentionTypeOK
  <1>1. RetentionInv => RetentionTypeOK
    BY DEF RetentionInv
  <1> QED
    BY SelectionInvariant, <1>1, PTL

\* Whatever commits between the selection and the delete, a message that is
\* purged is finished or was requeued in between (purgeExpired).
THEOREM OnlyRequeueEndangers == Spec => PurgedAreFinished
  <1> DEFINE Finished ==
        \A m \in Messages :
          Purged(m) => status[m] \in {"DELIVERED", "UNDELIVERED", "REJECTED", "FATAL_FAILURE"}
                       \/ m \in reopened
  <1>1. RetentionInv /\ [Next]_vars => [Finished]_vars
    <2> SUFFICES ASSUME RetentionInv, Next, NEW m \in Messages, Purged(m)
                 PROVE  status[m] \in TerminalStatuses \/ m \in reopened
      BY DEF TerminalStatuses
    <2>1. ~ \E n \in Messages : MessageStep(n)
      <3> SUFFICES ASSUME NEW n \in Messages, MessageStep(n) PROVE FALSE
        OBVIOUS
      <3>1. status'[m] \in {status[m]} \cup Statuses
        BY DEF MessageStep, CreateMessage, ChangeStatus, AmbiguousAnswer, ResetForRequeue,
               RetentionElapses, RetentionInv, RetentionTypeOK, Statuses
      <3> QED
        BY <3>1 DEF Purged, Statuses, NoMessage
    <2>2. PICK p \in Purges : PurgeStep(p) \/ PurgeAborts(p)
      BY <2>1 DEF Next
    <2>3. DeleteMessages(p)
      BY <2>2 DEF PurgeStep, SelectExpired, DeleteChildren, ForeignKeyViolation, PurgeAborts, Purged
    <2>4. m \in purge[p].ids
      BY <2>3 DEF DeleteMessages, Purged
    <2> QED
      BY <2>4 DEF RetentionInv, SelectedAreFinished, Purged
  <1> QED
    BY SelectionInvariant, <1>1, PTL DEF Spec, PurgedAreFinished

=============================================================================
