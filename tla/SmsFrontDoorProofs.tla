-------------------------- MODULE SmsFrontDoorProofs --------------------------
(***************************************************************************)
(* Theorems about SmsFrontDoor, for every set of environments, requests    *)
(* and metadata values, every width of addresses and all limits: what the  *)
(* validation lets through starts with all its providers unless a network  *)
(* is none, exactly the callers of the listed networks pass the guard, and *)
(* exactly the requests within the limits are accepted.                    *)
(***************************************************************************)
EXTENDS SmsFrontDoor, PrivateNetworksProofs, FiniteSetTheorems

-----------------------------------------------------------------------------
(* The definitions of the inspection, unfolded.                             *)

\* What an inspection answers, and what inspects the values in a value.
Answers == [ok : BOOLEAN, keyCount : Nat]
Inspectors == [Items -> [Nat -> Answers]]

\* Entries hold values (ItemsAssumption), one by one.
LEMMA ItemType ==
  ASSUME NEW item \in Items
  PROVE  /\ Len(item.entries) \in Nat
         /\ \A i \in 1..Len(item.entries) :
              item.entries[i].item \in Items /\ item.entries[i].refused \in BOOLEAN
  <1> DEFINE S == [refused : BOOLEAN, dropped : BOOLEAN, item : Items]
             entries == item.entries
  <1>1. entries \in Seq(S)
    BY ItemsAssumption
  <1> HIDE DEF S, entries
  <1>2. Len(entries) \in Nat /\ \A i \in 1..Len(entries) : entries[i] \in S
    BY <1>1
  <1>3. \A e \in S : e.item \in Items /\ e.refused \in BOOLEAN
    BY DEF S
  <1> QED
    BY <1>2, <1>3 DEF entries

\* A callback of `every` answers.
LEMMA InspectEntryType ==
  ASSUME NEW deeper \in Inspectors, NEW item \in Items, NEW seen \in Answers,
         NEW i \in 1..Len(item.entries)
  PROVE  InspectEntry(deeper, item.kind, seen, item.entries[i]) \in Answers
  <1> DEFINE entry == item.entries[i]
             kind == item.kind
             count == seen.keyCount + (IF kind = "object" THEN 1 ELSE 0)
  <1>1. count \in Nat
    BY DEF Answers
  <1>2. deeper[entry.item][count] \in Answers
    BY <1>1, ItemType DEF Inspectors
  <1> HIDE DEF count, entry, kind
  <1>3. [ok |-> FALSE, keyCount |-> count] \in Answers
    BY <1>1 DEF Answers
  <1> QED
    BY <1>1, <1>2, <1>3 DEF InspectEntry, count, entry, kind

\* seen[k] is what the callbacks of the first k entries have left.
Sees(seen, deeper, item, keyCount) ==
  /\ seen \in [0..Len(item.entries) -> Answers]
  /\ seen[0] = [ok |-> TRUE, keyCount |-> keyCount]
  /\ \A k \in 1..Len(item.entries) :
       seen[k] = InspectEntry(deeper, item.kind, seen[k - 1], item.entries[k])

\* `every` is what its last callback has left.
LEMMA EveryDef ==
  ASSUME NEW deeper \in Inspectors, NEW item \in Items, NEW keyCount \in Nat
  PROVE  \E seen : /\ Sees(seen, deeper, item, keyCount)
                   /\ Every(deeper, item, keyCount) = seen[Len(item.entries)]
  <1> DEFINE n == Len(item.entries)
             start == [ok |-> TRUE, keyCount |-> keyCount]
             After(s, k) == InspectEntry(deeper, item.kind, s, item.entries[k])
             step == [k \in Nat |-> [s \in Answers |-> IF k < n THEN After(s, k + 1) ELSE s]]
             Is(v) == v = [k \in 0..n |-> IF k = 0 THEN start ELSE After(v[k - 1], k)]
  <1>1. n \in Nat
    BY ItemType
  <1>2. start \in Answers
    BY DEF Answers
  <1>3. \A s \in Answers, k \in 1..n : After(s, k) \in Answers
    BY InspectEntryType
  <1> HIDE DEF n, start, After
  <1>4. step \in StepsOn(Answers)
    <2>1. \A k \in Nat, s \in Answers : k < n => After(s, k + 1) \in Answers
      BY <1>1, <1>3
    <2> QED
      BY <2>1 DEF StepsOn
  <1>5. PICK f : Iterates(f, Answers, start, step)
    <2> HIDE DEF step
    <2> QED
      BY <1>2, <1>4, Iteration
  <1> DEFINE v == [k \in 0..n |-> f[k]]
  <1>6. f \in [Nat -> Answers] /\ f[0] = start
    BY <1>5 DEF Iterates
  <1>7. ASSUME NEW k \in 1..n PROVE f[k] = After(f[k - 1], k)
    <2>1. k - 1 \in Nat /\ (k - 1) + 1 = k /\ k - 1 < n
      BY <1>1
    <2>2. f[k] = step[k - 1][f[k - 1]]
      BY <1>5, <2>1 DEF Iterates
    <2> QED
      BY <1>6, <2>1, <2>2
  <1> HIDE DEF step
  <1>8. v[0] = start /\ v \in [0..n -> Answers] /\ \A k \in 1..n : v[k] = After(v[k - 1], k)
    BY <1>1, <1>6, <1>7
  <1>9. Is(v)
    <2>1. v = [k \in 0..n |-> v[k]]
      OBVIOUS
    <2>2. ASSUME NEW k \in 0..n PROVE v[k] = IF k = 0 THEN start ELSE After(v[k - 1], k)
      <3>1. CASE k = 0
        BY <1>8, <3>1
      <3>2. CASE k # 0
        <4>1. k \in 1..n
          BY <1>1, <3>2
        <4> HIDE DEF v
        <4> QED
          BY <1>8, <3>2, <4>1
      <3> QED
        BY <3>1, <3>2
    <2> HIDE DEF v
    <2> QED
      BY <2>1, <2>2
  <1> HIDE DEF v
  <1>10. Every(deeper, item, keyCount) = (CHOOSE u : Is(u))[n]
    BY DEF Every, n, start, After
  <1>11. \A u : Is(u) => u = v
    <2> SUFFICES ASSUME NEW u, Is(u) PROVE u = v
      OBVIOUS
    <2> DEFINE T == {k \in Nat : k <= n => u[k] = v[k]}
    <2>1. 0 \in T
      BY <1>1, <1>9
    <2>2. ASSUME NEW k \in Nat, k \in T PROVE k + 1 \in T
      BY <1>1, <1>9, <2>2
    <2> HIDE DEF T
    <2>3. Nat \subseteq T
      BY <2>1, <2>2, SetInduction
    <2>4. ASSUME NEW k \in 0..n PROVE u[k] = v[k]
      <3>1. k \in T /\ k <= n
        BY <1>1, <2>3
      <3> QED
        BY <3>1 DEF T
    <2>5. u = [k \in 0..n |-> u[k]] /\ v = [k \in 0..n |-> v[k]]
      BY <1>9
    <2> QED
      BY <2>4, <2>5
  <1>12. (CHOOSE u : Is(u)) = v
    <2> HIDE DEF Is
    <2> QED
      BY <1>9, <1>11
  <1>13. Sees(v, deeper, item, keyCount)
    BY <1>8 DEF Sees, n, start, After
  <1> QED
    BY <1>10, <1>12, <1>13 DEF n

\* `every` answers.
LEMMA EveryType ==
  ASSUME NEW deeper \in Inspectors, NEW item \in Items, NEW keyCount \in Nat
  PROVE  Every(deeper, item, keyCount) \in Answers
  <1>1. PICK seen : /\ Sees(seen, deeper, item, keyCount)
                    /\ Every(deeper, item, keyCount) = seen[Len(item.entries)]
    BY EveryDef
  <1>2. Len(item.entries) \in 0..Len(item.entries)
    BY ItemType
  <1> QED
    BY <1>1, <1>2 DEF Sees

\* `inspect` refuses when no level is left, and goes one level down otherwise.
LEMMA InspectDef ==
  /\ Inspect \in [Nat -> Inspectors]
  /\ \A item \in Items, keyCount \in Nat :
       Inspect[0][item][keyCount] = [ok |-> FALSE, keyCount |-> keyCount]
  /\ \A left \in Nat, item \in Items, keyCount \in Nat :
       Inspect[left + 1][item][keyCount] =
         IF item.kind \in {"text", "scalar"}
         THEN [ok |-> ~IsTooLong(item), keyCount |-> keyCount]
         ELSE Every(Inspect[left], item, keyCount)
  <1> DEFINE Leaf(item, c) == [ok |-> ~IsTooLong(item), keyCount |-> c]
             Fail(c) == [ok |-> FALSE, keyCount |-> c]
             start == [item \in Items |-> [c \in Nat |-> Fail(c)]]
             Level(deeper) ==
               [item \in Items |-> [c \in Nat |->
                  IF item.kind \in {"text", "scalar"} THEN Leaf(item, c) ELSE Every(deeper, item, c)]]
             step == [n \in Nat |-> [deeper \in Inspectors |-> Level(deeper)]]
             Body(f, left) ==
               [item \in Items |-> [keyCount \in Nat |->
                  CASE left = 0 -> [ok |-> FALSE, keyCount |-> keyCount]
                    [] left > 0 /\ item.kind \in {"text", "scalar"} ->
                         [ok |-> ~IsTooLong(item), keyCount |-> keyCount]
                    [] OTHER -> Every(f[left - 1], item, keyCount)]]
             Is(f) == f = [left \in Nat |-> Body(f, left)]
  <1>1. \A item \in Items, c \in Nat : Leaf(item, c) \in Answers /\ Fail(c) \in Answers
    BY DEF Answers, IsTooLong
  <1>2. start \in Inspectors
    <2> HIDE DEF Fail
    <2> QED
      BY <1>1 DEF Inspectors
  <1>3. \A deeper \in Inspectors : Level(deeper) \in Inspectors
    <2> SUFFICES ASSUME NEW deeper \in Inspectors PROVE Level(deeper) \in Inspectors
      OBVIOUS
    <2>1. \A item \in Items, c \in Nat : Every(deeper, item, c) \in Answers
      BY EveryType
    <2> HIDE DEF Leaf
    <2> QED
      BY <1>1, <2>1 DEF Inspectors
  <1>4. \A f : Body(f, 0) = start
    OBVIOUS
  <1>5. \A f : \A left \in Nat : Body(f, left + 1) = Level(f[left])
    <2> SUFFICES ASSUME NEW f, NEW left \in Nat PROVE Body(f, left + 1) = Level(f[left])
      OBVIOUS
    <2>1. left + 1 # 0 /\ left + 1 > 0 /\ (left + 1) - 1 = left
      OBVIOUS
    <2> QED
      BY <2>1
  <1> HIDE DEF start, Level, Body
  <1>6. step \in StepsOn(Inspectors)
    BY <1>3 DEF StepsOn
  <1>7. PICK f : Iterates(f, Inspectors, start, step)
    <2> HIDE DEF step
    <2> QED
      BY <1>2, <1>6, Iteration
  <1>8. f \in [Nat -> Inspectors] /\ f[0] = start /\ \A n \in Nat : f[n + 1] = Level(f[n])
    BY <1>7 DEF Iterates
  <1>9. Is(f)
    <2>1. ASSUME NEW n \in Nat PROVE f[n] = Body(f, n)
      <3>1. CASE n = 0
        BY <1>4, <1>8, <3>1
      <3>2. CASE n # 0
        <4>1. n - 1 \in Nat /\ (n - 1) + 1 = n
          BY <3>2
        <4> QED
          BY <1>5, <1>8, <4>1
      <3> QED
        BY <3>1, <3>2
    <2> QED
      BY <1>8, <2>1
  <1>10. Is(Inspect)
    <2>1. Inspect = CHOOSE g : Is(g)
      BY DEF Inspect, Body
    <2> HIDE DEF Is
    <2> QED
      BY <1>9, <2>1
  <1>11. Inspect[0] = start /\ \A n \in Nat : Inspect[n + 1] = Level(Inspect[n])
    BY <1>4, <1>5, <1>10
  <1>12. Nat \subseteq {n \in Nat : Inspect[n] \in Inspectors}
    <2> DEFINE T == {n \in Nat : Inspect[n] \in Inspectors}
    <2>1. 0 \in T
      BY <1>2, <1>11
    <2>2. ASSUME NEW n \in Nat, n \in T PROVE n + 1 \in T
      BY <1>3, <1>11, <2>2
    <2> HIDE DEF T
    <2>3. Nat \subseteq T
      BY <2>1, <2>2, SetInduction
    <2> QED
      BY <2>3 DEF T
  <1>13. Inspect = [n \in Nat |-> Inspect[n]]
    BY <1>10
  <1>14. Inspect \in [Nat -> Inspectors]
    BY <1>12, <1>13
  <1>15. \A item \in Items, c \in Nat : start[item][c] = [ok |-> FALSE, keyCount |-> c]
    BY DEF start
  <1>16. ASSUME NEW deeper, NEW item \in Items, NEW c \in Nat
         PROVE  Level(deeper)[item][c] =
                  IF item.kind \in {"text", "scalar"}
                  THEN [ok |-> ~IsTooLong(item), keyCount |-> c]
                  ELSE Every(deeper, item, c)
    BY DEF Level
  <1>17. ASSUME NEW left \in Nat, NEW item \in Items, NEW c \in Nat
         PROVE  Inspect[left + 1][item][c] =
                  IF item.kind \in {"text", "scalar"}
                  THEN [ok |-> ~IsTooLong(item), keyCount |-> c]
                  ELSE Every(Inspect[left], item, c)
    <2>1. Inspect[left + 1] = Level(Inspect[left])
      BY <1>11
    <2> QED
      BY <1>16, <2>1
  <1>18. \A item \in Items, c \in Nat : Inspect[0][item][c] = [ok |-> FALSE, keyCount |-> c]
    BY <1>11, <1>15
  <1> HIDE DEF Inspectors
  <1> QED
    BY <1>14, <1>17, <1>18


-----------------------------------------------------------------------------
(* The entries of a value.                                                  *)

\* Entries with the place where they are.
Places ==
  [at : Seq(Nat) \ {<<>>}, keyed : BOOLEAN, entry : [refused : BOOLEAN, dropped : BOOLEAN, item : Items]]

\* Entry i of a value.
Own(item, i) == [at |-> <<i>>, keyed |-> item.kind = "object", entry |-> item.entries[i]]

\* An entry of the value of entry i.
Moved(i, e) == [at |-> <<i>> \o e.at, keyed |-> e.keyed, entry |-> e.entry]

\* Entry i, and what is below it.
From(below, item, i) == {Own(item, i)} \cup {Moved(i, e) : e \in below[item.entries[i].item]}

\* An entry, and what is moved below it, are entries with a place.
LEMMA PlacesType ==
  ASSUME NEW item \in Items, NEW i \in 1..Len(item.entries)
  PROVE  /\ Own(item, i) \in Places
         /\ \A e \in Places : Moved(i, e) \in Places
  <1>1. item.entries[i] \in [refused : BOOLEAN, dropped : BOOLEAN, item : Items]
    <2> DEFINE S == [refused : BOOLEAN, dropped : BOOLEAN, item : Items]
    <2> DEFINE entries == item.entries
    <2>0. i \in 1..Len(entries)
      OBVIOUS
    <2>1. entries \in Seq(S)
      BY ItemsAssumption
    <2> HIDE DEF S
    <2>2. entries[i] \in S
      <3> HIDE DEF entries
      <3> QED
        BY <2>1, <2>0
    <2> QED
      BY <2>2 DEF S
  <1>2. i \in Nat
    BY ItemType
  <1>3. <<i>> \in Seq(Nat) \ {<<>>} /\ \A e \in Places : <<i>> \o e.at \in Seq(Nat) \ {<<>>}
    BY <1>2 DEF Places
  <1> QED
    BY <1>1, <1>3 DEF Own, Moved, Places

\* The entries of a value are its own and those below them.
LEMMA EntriesDef ==
  /\ EntriesWithin \in [Nat -> [Items -> SUBSET Places]]
  /\ \A item \in Items : EntriesWithin[0][item] = {}
  /\ \A levels \in Nat, item \in Items :
       EntriesWithin[levels + 1][item] =
         UNION {From(EntriesWithin[levels], item, i) : i \in 1..Len(item.entries)}
  <1> DEFINE S == [Items -> SUBSET Places]
             start == [item \in Items |-> {}]
             Level(below) ==
               [item \in Items |-> UNION {From(below, item, i) : i \in 1..Len(item.entries)}]
             step == [n \in Nat |-> [below \in S |-> Level(below)]]
             Body(f, levels) ==
               [item \in Items |->
                  IF levels = 0 THEN {}
                  ELSE UNION {{[at |-> <<i>>, keyed |-> item.kind = "object",
                                entry |-> item.entries[i]]}
                              \cup {[at |-> <<i>> \o e.at, keyed |-> e.keyed, entry |-> e.entry] :
                                      e \in f[levels - 1][item.entries[i].item]} :
                                i \in 1..Len(item.entries)}]
             Is(f) == f = [levels \in Nat |-> Body(f, levels)]
  <1>1. start \in S
    OBVIOUS
  <1>2. \A below \in S : Level(below) \in S
    <2> SUFFICES ASSUME NEW below \in S, NEW item \in Items, NEW i \in 1..Len(item.entries)
                 PROVE  From(below, item, i) \subseteq Places
      OBVIOUS
    <2> DEFINE B == below[item.entries[i].item]
    <2>1. B \subseteq Places
      BY ItemType
    <2>2. From(below, item, i) = {Own(item, i)} \cup {Moved(i, e) : e \in B}
      BY DEF From
    <2> HIDE DEF B, S
    <2>3. \A e \in B : Moved(i, e) \in Places
      BY <2>1, PlacesType
    <2>4. {Moved(i, e) : e \in B} \subseteq Places
      <3> HIDE DEF Places
      <3> QED
        BY <2>3
    <2>5. Own(item, i) \in Places
      BY PlacesType
    <2> QED
      BY <2>2, <2>4, <2>5
  <1>3. \A f : Body(f, 0) = start
    OBVIOUS
  <1>4. \A f : \A levels \in Nat : Body(f, levels + 1) = Level(f[levels])
    <2> SUFFICES ASSUME NEW f, NEW levels \in Nat PROVE Body(f, levels + 1) = Level(f[levels])
      OBVIOUS
    <2>1. levels + 1 # 0 /\ (levels + 1) - 1 = levels
      OBVIOUS
    <2> QED
      BY <2>1 DEF From, Own, Moved
  <1> HIDE DEF S, start, Level, Body
  <1>6. step \in StepsOn(S)
    BY <1>2 DEF StepsOn
  <1>7. PICK f : Iterates(f, S, start, step)
    <2> HIDE DEF step
    <2> QED
      BY <1>1, <1>6, Iteration
  <1>8. f \in [Nat -> S] /\ f[0] = start /\ \A n \in Nat : f[n + 1] = Level(f[n])
    BY <1>7 DEF Iterates
  <1>9. Is(f)
    <2>1. ASSUME NEW n \in Nat PROVE f[n] = Body(f, n)
      <3>1. CASE n = 0
        BY <1>3, <1>8, <3>1
      <3>2. CASE n # 0
        <4>1. n - 1 \in Nat /\ (n - 1) + 1 = n
          BY <3>2
        <4> QED
          BY <1>4, <1>8, <4>1
      <3> QED
        BY <3>1, <3>2
    <2> QED
      BY <1>8, <2>1
  <1>10. Is(EntriesWithin)
    <2>1. EntriesWithin = CHOOSE g : Is(g)
      BY DEF EntriesWithin, Body
    <2> HIDE DEF Is
    <2> QED
      BY <1>9, <2>1
  <1>11. EntriesWithin[0] = start /\ \A n \in Nat : EntriesWithin[n + 1] = Level(EntriesWithin[n])
    BY <1>3, <1>4, <1>10
  <1>12. Nat \subseteq {n \in Nat : EntriesWithin[n] \in S}
    <2> DEFINE T == {n \in Nat : EntriesWithin[n] \in S}
    <2>1. 0 \in T
      BY <1>1, <1>11
    <2>2. ASSUME NEW n \in Nat, n \in T PROVE n + 1 \in T
      BY <1>2, <1>11, <2>2
    <2> HIDE DEF T
    <2>3. Nat \subseteq T
      BY <2>1, <2>2, SetInduction
    <2> QED
      BY <2>3 DEF T
  <1>13. EntriesWithin = [n \in Nat |-> EntriesWithin[n]]
    BY <1>10
  <1>14. EntriesWithin \in [Nat -> S]
    BY <1>12, <1>13
  <1>15. \A item \in Items : start[item] = {}
    BY DEF start
  <1>16. ASSUME NEW below, NEW item \in Items
         PROVE  Level(below)[item] = UNION {From(below, item, i) : i \in 1..Len(item.entries)}
    BY DEF Level
  <1>17. ASSUME NEW levels \in Nat, NEW item \in Items
         PROVE  EntriesWithin[levels + 1][item] =
                  UNION {From(EntriesWithin[levels], item, i) : i \in 1..Len(item.entries)}
    <2>1. EntriesWithin[levels + 1] = Level(EntriesWithin[levels])
      BY <1>11
    <2> QED
      BY <1>16, <2>1
  <1>18. \A item \in Items : EntriesWithin[0][item] = {}
    BY <1>11, <1>15
  <1> QED
    BY <1>14, <1>17, <1>18 DEF S


\* The first k entries with what is below them.
FirstOf(below, item, k) == UNION {From(below, item, i) : i \in 1..k}

\* What is below an entry is moved there, one for one.
LEMMA MovedApart ==
  ASSUME NEW i \in Nat, NEW d \in Places, NEW e \in Places
  PROVE  /\ Moved(i, d) = Moved(i, e) => d = e
         /\ Len(Moved(i, e).at) = Len(e.at) + 1
         /\ Moved(i, e).at[1] = i
         /\ Len(e.at) \in Nat \ {0}
  <1>1. d.at \in Seq(Nat) \ {<<>>} /\ e.at \in Seq(Nat) \ {<<>>}
    BY DEF Places
  <1>2. ASSUME NEW a \in Seq(Nat), NEW b \in Seq(Nat), <<i>> \o a = <<i>> \o b
        PROVE  a = b
    <2>1. Len(a) = Len(b)
      <3>1. Len(<<i>> \o a) = 1 + Len(a) /\ Len(<<i>> \o b) = 1 + Len(b)
        OBVIOUS
      <3> QED
        BY <1>2, <3>1
    <2>2. \A k \in 1..Len(a) : (<<i>> \o a)[k + 1] = a[k] /\ (<<i>> \o b)[k + 1] = b[k]
      BY <2>1
    <2>3. \A k \in 1..Len(a) : a[k] = b[k]
      BY <1>2, <2>2
    <2> QED
      BY <2>1, <2>3
  <1>3. Moved(i, d) = Moved(i, e) => d = e
    <2> SUFFICES ASSUME Moved(i, d) = Moved(i, e) PROVE d = e
      OBVIOUS
    <2>1. <<i>> \o d.at = <<i>> \o e.at /\ d.keyed = e.keyed /\ d.entry = e.entry
      BY DEF Moved
    <2>2. d.at = e.at
      BY <1>1, <1>2, <2>1
    <2>3. /\ d = [at |-> d.at, keyed |-> d.keyed, entry |-> d.entry]
          /\ e = [at |-> e.at, keyed |-> e.keyed, entry |-> e.entry]
      BY DEF Places
    <2> QED
      BY <2>1, <2>2, <2>3
  <1>4. Len(<<i>> \o e.at) = Len(e.at) + 1 /\ (<<i>> \o e.at)[1] = i /\ Len(e.at) \in Nat \ {0}
    BY <1>1
  <1> QED
    BY <1>3, <1>4 DEF Moved

\* Moving entries keeps the number of keys.
LEMMA MovedCount ==
  ASSUME NEW i \in Nat, NEW B, B \subseteq Places, IsFiniteSet(B)
  PROVE  /\ IsFiniteSet({Moved(i, e) : e \in B})
         /\ Cardinality(Keyed({Moved(i, e) : e \in B})) = Cardinality(Keyed(B))
         /\ Cardinality(Keyed(B)) \in Nat
  <1> DEFINE M == {Moved(i, e) : e \in B}
             f == [e \in B |-> Moved(i, e)]
             g == [e \in Keyed(B) |-> Moved(i, e)]
  <1>1. f \in Surjection(B, M)
    BY DEF Surjection
  <1>2. IsFiniteSet(M)
    BY <1>1, FS_Surjection
  <1>3. IsFiniteSet(Keyed(B))
    BY FS_Subset DEF Keyed
  <1>4. \A e \in B : Moved(i, e).keyed = e.keyed
    BY DEF Moved
  <1>5. g \in Bijection(Keyed(B), Keyed(M))
    <2>1. \A e \in Keyed(B) : g[e] \in Keyed(M)
      BY <1>4 DEF Keyed
    <2>2. \A m \in Keyed(M) : \E e \in Keyed(B) : g[e] = m
      BY <1>4 DEF Keyed
    <2>3. \A d, e \in Keyed(B) : g[d] = g[e] => d = e
      BY MovedApart DEF Keyed
    <2> HIDE DEF g, M
    <2>4. g \in [Keyed(B) -> Keyed(M)]
      BY <2>1 DEF g
    <2>5. g \in Injection(Keyed(B), Keyed(M))
      BY <2>3, <2>4 DEF Injection, IsInjective
    <2>6. g \in Surjection(Keyed(B), Keyed(M))
      BY <2>2, <2>4 DEF Surjection
    <2> QED
      BY <2>5, <2>6 DEF Bijection
  <1>6. Cardinality(Keyed(M)) = Cardinality(Keyed(B))
    <2>1. ExistsBijection(Keyed(B), Keyed(M))
      BY <1>5 DEF ExistsBijection
    <2> HIDE DEF M, g
    <2> QED
      BY <1>3, <2>1, FS_Bijection
  <1> QED
    BY <1>2, <1>3, <1>6, FS_CardinalityType

\* An entry of an object counts for one key besides those below it.
LEMMA FromCount ==
  ASSUME NEW below \in [Items -> SUBSET Places], NEW item \in Items,
         NEW i \in 1..Len(item.entries), IsFiniteSet(below[item.entries[i].item])
  PROVE  /\ IsFiniteSet(From(below, item, i))
         /\ Cardinality(Keyed(From(below, item, i)))
            = (IF item.kind = "object" THEN 1 ELSE 0)
              + Cardinality(Keyed(below[item.entries[i].item]))
         /\ Cardinality(Keyed(below[item.entries[i].item])) \in Nat
         /\ \A e \in From(below, item, i) : e \in Places /\ e.at[1] = i
  <1> DEFINE B == below[item.entries[i].item]
             M == {Moved(i, e) : e \in B}
             own == Own(item, i)
  <1>1. B \subseteq Places /\ i \in Nat
    BY ItemType
  <1>2. From(below, item, i) = M \cup {own}
    BY DEF From
  <1> HIDE DEF B
  <1>3. /\ IsFiniteSet(M)
        /\ Cardinality(Keyed(M)) = Cardinality(Keyed(B))
        /\ Cardinality(Keyed(B)) \in Nat
    BY <1>1, MovedCount DEF B
  <1>4. IsFiniteSet(M \cup {own})
    BY <1>3, FS_AddElement
  <1>5. own \notin M
    <2>1. ASSUME NEW e \in B PROVE own # Moved(i, e)
      <3>1. Len(Moved(i, e).at) = Len(e.at) + 1 /\ Len(e.at) \in Nat \ {0}
        BY <1>1, MovedApart
      <3>2. Len(own.at) = 1
        BY DEF Own
      <3>3. Len(Moved(i, e).at) # Len(own.at)
        BY <3>1, <3>2
      <3> HIDE DEF own
      <3> QED
        BY <3>3
    <2> QED
      BY <2>1
  <1>6. Keyed(M \cup {own}) = Keyed(M) \cup (IF own.keyed THEN {own} ELSE {})
    BY DEF Keyed
  <1>7. IsFiniteSet(Keyed(M)) /\ own \notin Keyed(M)
    BY <1>3, <1>5, FS_Subset DEF Keyed
  <1>8. Cardinality(Keyed(M \cup {own})) = (IF own.keyed THEN 1 ELSE 0) + Cardinality(Keyed(B))
    <2>1. CASE own.keyed
      <3>1. Keyed(M \cup {own}) = Keyed(M) \cup {own}
        BY <1>6, <2>1
      <3>2. Cardinality(Keyed(M) \cup {own}) = Cardinality(Keyed(M)) + 1
        <4> HIDE DEF M, own
        <4> QED
          BY <1>7, FS_AddElement
      <3>3. Cardinality(Keyed(M)) + 1 = 1 + Cardinality(Keyed(B))
        <4> HIDE DEF M
        <4> QED
          BY <1>3
      <3> HIDE DEF own, M
      <3>4. (IF own.keyed THEN 1 ELSE 0) = 1
        BY <2>1
      <3> QED
        BY <3>1, <3>2, <3>3, <3>4
    <2>2. CASE ~own.keyed
      <3>1. Keyed(M \cup {own}) = Keyed(M)
        BY <1>6, <2>2
      <3> HIDE DEF own, M
      <3> QED
        BY <1>3, <2>2, <3>1
    <2> QED
      BY <2>1, <2>2
  <1>9. own.keyed = (item.kind = "object") /\ own.at[1] = i
    BY DEF Own
  <1>10. \A e \in M \cup {own} : e \in Places /\ e.at[1] = i
    BY <1>1, <1>9, PlacesType, MovedApart
  <1> HIDE DEF own, M
  <1> QED
    BY <1>2, <1>3, <1>4, <1>8, <1>9, <1>10 DEF B

\* Entry by entry, the keys add up, since no place occurs twice.
LEMMA FirstOfCount ==
  ASSUME NEW below \in [Items -> SUBSET Places], NEW item \in Items,
         \A other \in Items : IsFiniteSet(below[other])
  PROVE  /\ FirstOf(below, item, 0) = {}
         /\ \A k \in 0..Len(item.entries) :
              /\ IsFiniteSet(FirstOf(below, item, k))
              /\ Cardinality(Keyed(FirstOf(below, item, k))) \in Nat
         /\ \A k \in 1..Len(item.entries) :
              /\ FirstOf(below, item, k) = FirstOf(below, item, k - 1) \cup From(below, item, k)
              /\ Cardinality(Keyed(FirstOf(below, item, k)))
                 = Cardinality(Keyed(FirstOf(below, item, k - 1)))
                   + Cardinality(Keyed(From(below, item, k)))
  <1> DEFINE n == Len(item.entries)
             F(k) == FirstOf(below, item, k)
             T == {k \in Nat : k <= n => IsFiniteSet(F(k))}
  <1>1. n \in Nat
    BY ItemType
  <1>2. F(0) = {}
    BY DEF FirstOf
  <1>3. ASSUME NEW k \in 1..n
        PROVE  F(k) = F(k - 1) \cup From(below, item, k)
    <2>1. 1..k = (1..(k - 1)) \cup {k}
      BY <1>1
    <2> QED
      BY <2>1 DEF FirstOf
  <1>4. ASSUME NEW k \in 1..n
        PROVE  /\ IsFiniteSet(From(below, item, k))
               /\ \A e \in From(below, item, k) : e \in Places /\ e.at[1] = k
    BY FromCount, ItemType
  <1> HIDE DEF n, F
  <1>5. 0 \in T
    BY <1>2, FS_EmptySet
  <1>6. ASSUME NEW k \in Nat, k \in T PROVE k + 1 \in T
    <2> SUFFICES ASSUME k + 1 <= n PROVE IsFiniteSet(F(k + 1))
      OBVIOUS
    <2>1. k + 1 \in 1..n /\ (k + 1) - 1 = k /\ k <= n
      BY <1>1
    <2>2. F(k + 1) = F(k) \cup From(below, item, k + 1)
      BY <1>3, <2>1
    <2>3. IsFiniteSet(F(k)) /\ IsFiniteSet(From(below, item, k + 1))
      BY <1>4, <1>6, <2>1
    <2>4. ASSUME NEW S, NEW R, IsFiniteSet(S), IsFiniteSet(R)
          PROVE  IsFiniteSet(S \cup R)
      BY ONLY <2>4, FS_Union
    <2> QED
      BY <2>2, <2>3, <2>4
  <1> HIDE DEF T
  <1>7. Nat \subseteq T
    BY <1>5, <1>6, SetInduction
  <1>8. \A k \in 0..n : IsFiniteSet(F(k))
    <2> SUFFICES ASSUME NEW k \in 0..n PROVE IsFiniteSet(F(k))
      OBVIOUS
    <2>1. k \in T /\ k <= n
      BY <1>1, <1>7
    <2> QED
      BY <2>1 DEF T
  <1>9. \A k \in 0..n : IsFiniteSet(Keyed(F(k)))
    BY <1>8, FS_Subset DEF Keyed
  <1>10. \A k \in 0..n : Cardinality(Keyed(F(k))) \in Nat
    BY <1>9, FS_CardinalityType
  <1>11. ASSUME NEW k \in 1..n
         PROVE  Cardinality(Keyed(F(k)))
                = Cardinality(Keyed(F(k - 1))) + Cardinality(Keyed(From(below, item, k)))
    <2> DEFINE A == Keyed(F(k - 1))
               C == Keyed(From(below, item, k))
    <2>1. k - 1 \in 0..n
      BY <1>1
    <2>2. IsFiniteSet(A)
      BY <1>9, <2>1
    <2>3. IsFiniteSet(C)
      BY <1>4, FS_Subset DEF Keyed
    <2>4. A \cap C = {}
      <3>1. ASSUME NEW e \in F(k - 1) PROVE e.at[1] # k
        <4>1. PICK i \in 1..(k - 1) : e \in From(below, item, i)
          BY DEF F, FirstOf
        <4>2. i \in 1..n /\ i # k
          BY <1>1, <4>1
        <4> QED
          BY <1>4, <4>1, <4>2
      <3>2. ASSUME NEW e \in From(below, item, k) PROVE e.at[1] = k
        BY <1>4
      <3> QED
        BY <3>1, <3>2 DEF Keyed
    <2>5. Keyed(F(k)) = A \cup C
      BY <1>3 DEF Keyed
    <2> HIDE DEF A, C
    <2>6. Cardinality(A \cup C) = Cardinality(A) + Cardinality(C) - Cardinality(A \cap C)
      BY <2>2, <2>3, FS_Union
    <2>7. Cardinality(A) \in Nat /\ Cardinality(C) \in Nat /\ Cardinality(A \cap C) = 0
      BY <2>2, <2>3, <2>4, FS_CardinalityType, FS_EmptySet
    <2> QED
      BY <2>5, <2>6, <2>7 DEF A, C
  <1> QED
    BY <1>2, <1>3, <1>8, <1>10, <1>11 DEF n, F


-----------------------------------------------------------------------------
(* The inspection.                                                          *)

\* All entries come from the first Len(entries) ones.
LEMMA EntriesAreFirst ==
  ASSUME NEW left \in Nat, NEW item \in Items
  PROVE  EntriesWithin[left + 1][item] = FirstOf(EntriesWithin[left], item, Len(item.entries))
  BY EntriesDef DEF FirstOf

\* A value has finitely many entries within any number of levels.
LEMMA EntriesFinite ==
  ASSUME NEW left \in Nat
  PROVE  /\ EntriesWithin[left] \in [Items -> SUBSET Places]
         /\ \A item \in Items : IsFiniteSet(EntriesWithin[left][item])
  <1> DEFINE T == {l \in Nat : \A item \in Items : IsFiniteSet(EntriesWithin[l][item])}
  <1>1. 0 \in T
    BY EntriesDef, FS_EmptySet
  <1>2. ASSUME NEW l \in Nat, l \in T PROVE l + 1 \in T
    <2> SUFFICES ASSUME NEW item \in Items PROVE IsFiniteSet(EntriesWithin[l + 1][item])
      OBVIOUS
    <2> DEFINE below == EntriesWithin[l]
               n == Len(item.entries)
    <2>1. below \in [Items -> SUBSET Places]
      BY EntriesDef
    <2>2. \A other \in Items : IsFiniteSet(below[other])
      BY <1>2
    <2>3. n \in 0..n
      BY ItemType
    <2>4. EntriesWithin[l + 1][item] = FirstOf(below, item, n)
      BY EntriesAreFirst
    <2> HIDE DEF below
    <2> QED
      BY <2>1, <2>2, <2>3, <2>4, FirstOfCount
  <1> HIDE DEF T
  <1>3. Nat \subseteq T
    BY <1>1, <1>2, SetInduction
  <1> QED
    BY <1>3, EntriesDef DEF T

\* An entry that may be there when `left` levels are left.
Fits(e, left) ==
  /\ Len(e.at) < left
  /\ ~IsTooLong(e.entry.item)
  /\ e.keyed => ~e.entry.refused

\* All these entries may be there.
AllFit(entries, left) == \A e \in entries : Fits(e, left)

\* How many keys these entries have.
KeysOf(entries) == Cardinality(Keyed(entries))

\* The answer is about these entries, with c keys counted before them.
Tells(answer, entries, left, c) ==
  /\ answer.ok <=> AllFit(entries, left) /\ c + KeysOf(entries) <= MaxKeys
  /\ answer.ok => answer.keyCount = c + KeysOf(entries)

\* What the inspection of `left` levels answers.
TellsAll(left) ==
  \A item \in Items, c \in 0..MaxKeys :
    IF left > 0 /\ ~IsTooLong(item)
    THEN Tells(Inspect[left][item][c], EntriesWithin[left][item], left, c)
    ELSE ~Inspect[left][item][c].ok

\* An entry fits with what is below it iff its value fits one level down.
LEMMA FromFits ==
  ASSUME NEW left \in Nat, NEW item \in Items, NEW i \in 1..Len(item.entries)
  PROVE  LET entry == item.entries[i]
             below == EntriesWithin[left]
         IN AllFit(From(below, item, i), left + 1)
            <=> /\ left > 0 /\ ~IsTooLong(entry.item) /\ AllFit(below[entry.item], left)
                /\ item.kind = "object" => ~entry.refused
  <1> DEFINE entry == item.entries[i]
             below == EntriesWithin[left]
             B == below[entry.item]
  <1>1. entry.item \in Items /\ i \in Nat
    BY ItemType
  <1>2. B \subseteq Places
    BY <1>1, EntriesDef
  <1>3. From(below, item, i) = {Own(item, i)} \cup {Moved(i, e) : e \in B}
    BY DEF From
  <1> HIDE DEF B, below
  <1>4. \A e \in B : Fits(Moved(i, e), left + 1) <=> Fits(e, left)
    <2> SUFFICES ASSUME NEW e \in B PROVE Fits(Moved(i, e), left + 1) <=> Fits(e, left)
      OBVIOUS
    <2>1. Len(Moved(i, e).at) = Len(e.at) + 1 /\ Len(e.at) \in Nat
      BY <1>1, <1>2, MovedApart
    <2>2. Len(e.at) + 1 < left + 1 <=> Len(e.at) < left
      BY <2>1
    <2>3. Moved(i, e).keyed = e.keyed /\ Moved(i, e).entry = e.entry
      BY DEF Moved
    <2> QED
      BY <2>1, <2>2, <2>3 DEF Fits
  <1>5. Fits(Own(item, i), left + 1)
        <=> left > 0 /\ ~IsTooLong(entry.item) /\ (item.kind = "object" => ~entry.refused)
    <2>1. Len(Own(item, i).at) < left + 1 <=> left > 0
      BY DEF Own
    <2> QED
      BY <2>1 DEF Fits, Own
  <1> QED
    BY <1>3, <1>4, <1>5 DEF AllFit, B, below

\* One callback goes from the entries before it to those with its own.
LEMMA EntryTells ==
  ASSUME NEW left \in Nat, TellsAll(left), NEW item \in Items, NEW i \in 1..Len(item.entries),
         NEW c \in 0..MaxKeys, NEW seen \in Answers, NEW D, Tells(seen, D, left + 1, c),
         KeysOf(D) \in Nat,
         KeysOf(D \cup From(EntriesWithin[left], item, i))
           = KeysOf(D) + KeysOf(From(EntriesWithin[left], item, i))
  PROVE  Tells(InspectEntry(Inspect[left], item.kind, seen, item.entries[i]),
               D \cup From(EntriesWithin[left], item, i), left + 1, c)
  <1> DEFINE entry == item.entries[i]
             own == IF item.kind = "object" THEN 1 ELSE 0
             E == From(EntriesWithin[left], item, i)
             B == EntriesWithin[left][entry.item]
             count == seen.keyCount + own
             answer == InspectEntry(Inspect[left], item.kind, seen, entry)
  <1>1. entry.item \in Items /\ entry.refused \in BOOLEAN
    BY ItemType
  <1>2. KeysOf(E) = own + KeysOf(B) /\ KeysOf(B) \in Nat /\ own \in {0, 1}
    BY <1>1, FromCount, EntriesFinite DEF KeysOf
  <1>3. AllFit(E, left + 1)
        <=> /\ left > 0 /\ ~IsTooLong(entry.item) /\ AllFit(B, left)
            /\ own = 1 => ~entry.refused
    BY FromFits
  <1>4. AllFit(D \cup E, left + 1) <=> AllFit(D, left + 1) /\ AllFit(E, left + 1)
    BY DEF AllFit
  <1>5. KeysOf(D \cup E) = KeysOf(D) + own + KeysOf(B)
    BY <1>2
  <1>6. MaxKeys \in Nat /\ c \in Nat /\ c <= MaxKeys
    BY LimitsAssumption
  <1>7. item.kind = "object" <=> own = 1
    OBVIOUS
  <1>8. answer = CASE ~seen.ok -> seen
                   [] seen.ok /\ own = 1 /\ (count > MaxKeys \/ entry.refused) ->
                        [ok |-> FALSE, keyCount |-> count]
                   [] OTHER -> Inspect[left][entry.item][count]
    BY <1>7 DEF InspectEntry
  <1> SUFFICES Tells(answer, D \cup E, left + 1, c)
    OBVIOUS
  <1> HIDE DEF own, E, B, answer, entry
  <1>9. CASE ~seen.ok
    <2>1. answer = seen
      BY <1>8, <1>9
    <2>2. ~(AllFit(D, left + 1) /\ c + KeysOf(D) <= MaxKeys)
      BY <1>9 DEF Tells
    <2> QED
      BY <1>2, <1>4, <1>5, <1>6, <1>9, <2>1, <2>2 DEF Tells
  <1>10. CASE seen.ok
    <2>1. /\ AllFit(D, left + 1) /\ c + KeysOf(D) <= MaxKeys
          /\ seen.keyCount = c + KeysOf(D) /\ count = c + KeysOf(D) + own
      BY <1>10 DEF Tells
    <2>2. count \in Nat
      BY <1>2, <1>6, <2>1
    <2>3. CASE own = 1 /\ (count > MaxKeys \/ entry.refused)
      <3>1. answer = [ok |-> FALSE, keyCount |-> count]
        BY <1>8, <1>10, <2>3
      <3>2. ~(AllFit(D \cup E, left + 1) /\ c + KeysOf(D \cup E) <= MaxKeys)
        BY <1>2, <1>3, <1>4, <1>5, <1>6, <2>1, <2>3
      <3> QED
        BY <3>1, <3>2 DEF Tells
    <2>4. CASE ~(own = 1 /\ (count > MaxKeys \/ entry.refused))
      <3>1. answer = Inspect[left][entry.item][count]
        BY <1>8, <1>10, <2>4
      <3>2. count \in 0..MaxKeys
        BY <1>2, <1>6, <2>1, <2>2, <2>4
      <3>3. IF left > 0 /\ ~IsTooLong(entry.item) THEN Tells(answer, B, left, count) ELSE ~answer.ok
        BY <1>1, <3>1, <3>2 DEF TellsAll, B
      <3>4. AllFit(D \cup E, left + 1)
            <=> left > 0 /\ ~IsTooLong(entry.item) /\ AllFit(B, left)
        <4>1. own = 1 => ~entry.refused
          BY <2>4
        <4> QED
          BY <1>3, <1>4, <2>1, <4>1
      <3>5. c + KeysOf(D \cup E) = count + KeysOf(B)
        BY <1>2, <1>5, <1>6, <2>1
      <3> QED
        BY <3>3, <3>4, <3>5 DEF Tells
    <2> QED
      BY <2>3, <2>4
  <1> QED
    BY <1>9, <1>10

\* `every` tells whether all entries fit, if the level below tells of each.
LEMMA EveryTells ==
  ASSUME NEW left \in Nat, TellsAll(left), NEW item \in Items, NEW c \in 0..MaxKeys
  PROVE  Tells(Every(Inspect[left], item, c), EntriesWithin[left + 1][item], left + 1, c)
  <1> DEFINE n == Len(item.entries)
             below == EntriesWithin[left]
             deeper == Inspect[left]
             F(k) == FirstOf(below, item, k)
  <1>1. n \in Nat /\ c \in Nat /\ MaxKeys \in Nat /\ c <= MaxKeys
    BY ItemType, LimitsAssumption
  <1>2. deeper \in Inspectors
    BY InspectDef
  <1>3. PICK seen : Sees(seen, deeper, item, c) /\ Every(deeper, item, c) = seen[n]
    BY <1>1, <1>2, EveryDef
  <1>4. /\ F(0) = {}
        /\ \A k \in 0..n : KeysOf(F(k)) \in Nat
        /\ \A k \in 1..n : /\ F(k) = F(k - 1) \cup From(below, item, k)
                           /\ KeysOf(F(k)) = KeysOf(F(k - 1)) + KeysOf(From(below, item, k))
    BY EntriesFinite, FirstOfCount DEF KeysOf
  <1> DEFINE T == {k \in Nat : k <= n => Tells(seen[k], F(k), left + 1, c)}
  <1>5. 0 \in T
    <2>1. seen[0] = [ok |-> TRUE, keyCount |-> c]
      BY <1>3 DEF Sees
    <2>2. KeysOf({}) = 0
      <3>1. Keyed({}) = {}
        BY DEF Keyed
      <3> QED
        BY <3>1, FS_EmptySet DEF KeysOf
    <2>3. Tells(seen[0], {}, left + 1, c)
      BY <1>1, <2>1, <2>2 DEF Tells, AllFit
    <2> HIDE DEF F
    <2> QED
      BY <1>4, <2>3
  <1> HIDE DEF F
  <1>6. ASSUME NEW k \in Nat, k \in T PROVE k + 1 \in T
    <2> SUFFICES ASSUME k + 1 <= n PROVE Tells(seen[k + 1], F(k + 1), left + 1, c)
      OBVIOUS
    <2>1. k + 1 \in 1..n /\ (k + 1) - 1 = k /\ k \in 0..n /\ k <= n
      BY <1>1
    <2>2. Tells(seen[k], F(k), left + 1, c)
      BY <1>6, <2>1
    <2>3. seen[k] \in Answers
          /\ seen[k + 1] = InspectEntry(deeper, item.kind, seen[k], item.entries[k + 1])
      BY <1>3, <2>1 DEF Sees
    <2>4. /\ KeysOf(F(k)) \in Nat
          /\ F(k + 1) = F(k) \cup From(below, item, k + 1)
          /\ KeysOf(F(k) \cup From(below, item, k + 1))
             = KeysOf(F(k)) + KeysOf(From(below, item, k + 1))
      BY <1>4, <2>1
    <2> QED
      BY <2>1, <2>2, <2>3, <2>4, EntryTells
  <1> HIDE DEF T
  <1>7. Nat \subseteq T
    BY <1>5, <1>6, SetInduction
  <1>8. Tells(seen[n], F(n), left + 1, c)
    <2>1. n \in T
      BY <1>1, <1>7
    <2> QED
      BY <1>1, <2>1 DEF T
  <1> QED
    BY <1>3, <1>8, EntriesAreFirst DEF F

\* The inspection that stops at the first violation and shares a counter accepts
\* exactly the values that are within the limits as a whole (isBoundedMetadata).
THEOREM InspectionIsExact ==
  ASSUME NEW metadata \in Items
  PROVE  IsBoundedMetadata(metadata) <=> IsWithinLimits(metadata)
  <1> DEFINE T == {left \in Nat : TellsAll(left)}
  <1>1. 0 \in T
    <2>1. \A c \in 0..MaxKeys : c \in Nat
      BY LimitsAssumption
    <2>2. ASSUME NEW item \in Items, NEW c \in 0..MaxKeys PROVE ~Inspect[0][item][c].ok
      <3>1. Inspect[0][item][c] = [ok |-> FALSE, keyCount |-> c]
        BY <2>1, InspectDef
      <3> QED
        BY <3>1
    <2> QED
      BY <2>2 DEF TellsAll
  <1>2. ASSUME NEW left \in Nat, left \in T PROVE left + 1 \in T
    <2> SUFFICES ASSUME NEW item \in Items, NEW c \in 0..MaxKeys
                 PROVE  IF ~IsTooLong(item)
                        THEN Tells(Inspect[left + 1][item][c], EntriesWithin[left + 1][item],
                                   left + 1, c)
                        ELSE ~Inspect[left + 1][item][c].ok
      BY DEF TellsAll
    <2>1. c \in Nat /\ MaxKeys \in Nat /\ c <= MaxKeys
      BY LimitsAssumption
    <2>2. CASE item.kind \in {"text", "scalar"}
      <3>1. Inspect[left + 1][item][c] = [ok |-> ~IsTooLong(item), keyCount |-> c]
        BY <2>1, <2>2, InspectDef
      <3>2. EntriesWithin[left + 1][item] = {}
        <4>1. Len(item.entries) = 0
          BY <2>2, ItemsAssumption
        <4>2. {From(EntriesWithin[left], item, i) : i \in 1..Len(item.entries)} = {}
          BY <4>1
        <4> QED
          BY <4>2, EntriesDef
      <3>3. KeysOf({}) = 0
        <4>1. Keyed({}) = {}
          BY DEF Keyed
        <4> QED
          BY <4>1, FS_EmptySet DEF KeysOf
      <3>4. CASE ~IsTooLong(item)
        <4>1. Inspect[left + 1][item][c] = [ok |-> TRUE, keyCount |-> c]
          BY <3>1, <3>4
        <4>2. Tells([ok |-> TRUE, keyCount |-> c], {}, left + 1, c)
          BY <2>1, <3>3 DEF Tells, AllFit
        <4> QED
          BY <3>2, <3>4, <4>1, <4>2
      <3>5. CASE IsTooLong(item)
        <4>1. Inspect[left + 1][item][c] = [ok |-> FALSE, keyCount |-> c]
          BY <3>1, <3>5
        <4> QED
          BY <3>5, <4>1
      <3> QED
        BY <3>4, <3>5
    <2>3. CASE item.kind \notin {"text", "scalar"}
      <3>1. Inspect[left + 1][item][c] = Every(Inspect[left], item, c)
        BY <2>1, <2>3, InspectDef
      <3>2. ~IsTooLong(item)
        BY <2>3 DEF IsTooLong
      <3> QED
        BY <1>2, <3>1, <3>2, EveryTells
    <2> QED
      BY <2>2, <2>3
  <1> HIDE DEF T
  <1>3. Nat \subseteq T
    BY <1>1, <1>2, SetInduction
  <1> DEFINE left == MaxDepth + 1
             E == EntriesWithin[left][metadata]
  <1>4. MaxDepth \in Nat /\ MaxKeys \in Nat /\ left \in Nat /\ left > 0
    BY LimitsAssumption
  <1>5. TellsAll(left)
    BY <1>3, <1>4 DEF T
  <1>6. IsBoundedMetadata(metadata)
        <=> ~IsTooLong(metadata) /\ AllFit(E, left) /\ 0 + KeysOf(E) <= MaxKeys
    BY <1>4, <1>5 DEF TellsAll, Tells, IsBoundedMetadata
  <1>7. IsFiniteSet(E) /\ E \subseteq Places
    BY <1>4, EntriesFinite
  <1>8. KeysOf(E) \in Nat
    <2>1. IsFiniteSet(Keyed(E))
      BY <1>7, FS_Subset DEF Keyed
    <2> QED
      BY <2>1, FS_CardinalityType DEF KeysOf
  <1>9. \A e \in E : Len(e.at) < left <=> Len(e.at) <= MaxDepth
    <2>1. \A e \in E : Len(e.at) \in Nat
      BY <1>7 DEF Places
    <2> QED
      BY <1>4, <2>1
  <1>10. IsWithinLimits(metadata)
         <=> /\ ~IsTooLong(metadata)
             /\ \A e \in E : Len(e.at) <= MaxDepth /\ ~IsTooLong(e.entry.item)
             /\ \A e \in Keyed(E) : ~e.entry.refused
             /\ KeysOf(E) <= MaxKeys
    BY DEF IsWithinLimits, KeysOf
  <1>11. AllFit(E, left)
         <=> /\ \A e \in E : Len(e.at) <= MaxDepth /\ ~IsTooLong(e.entry.item)
             /\ \A e \in Keyed(E) : ~e.entry.refused
    <2> HIDE DEF E
    <2> QED
      BY <1>9 DEF AllFit, Fits, Keyed
  <1> HIDE DEF E
  <1> QED
    BY <1>6, <1>8, <1>10, <1>11

-----------------------------------------------------------------------------
(* The invariant.                                                           *)

\* The conversion of a value is a value, of the same kind.
LEMMA ConvertedType ==
  ASSUME NEW item \in Items
  PROVE  Converted[item] \in Items /\ Converted[item].kind = item.kind
  <1>1. PICK entries : Converted[item] = [item EXCEPT !.entries = entries]
    BY ConversionAssumption
  <1>2. item \in [kind : {"text", "scalar", "list", "object"}, long : BOOLEAN,
                 entries : Seq([refused : BOOLEAN, dropped : BOOLEAN, item : Items])]
    BY ItemsAssumption
  <1> QED
    BY <1>1, <1>2, ConversionAssumption

\* The texts of PRIVATE_NETWORK_CIDRS are networks, and the guard holds them.
NetworksAreParsed ==
  networks # None =>
    /\ \A entry \in Entries(env) : IsCidr(entry)
    /\ networks = {ParseCidr(entry) : entry \in Entries(env)}

\* How far the start has come, and what it has read by then.
StartInv ==
  /\ stage \in Stages
  /\ stage = "down" => env = None
  /\ stage # "down" => env \in Environments
  /\ stage \in {"down", "refused"} => priority = None /\ registry = None /\ networks = None
  /\ stage \in {"starting", "faulty", "up"} =>
       IsValidEnvironment(env) /\ priority = Trimmed(env.priority)
  /\ registry # None => registry = Range(priority)
  /\ NetworksAreParsed
  /\ OnlySidOrNetworksStopAStart
  /\ stage = "up" => registry # None /\ networks # None

\* What the pipe may pass on.
Bodies == {None} \cup {Transformed(in.body) : in \in SendRequests}

\* What the checks a request has passed or failed say about it.
RequestInv ==
  request # None =>
    LET caller == request.in.caller
        body == Transformed(request.in.body)
    IN /\ stage = "up"
       /\ request \in [in : SendRequests, at : {"guard", "pipe", "service", "answered"},
                       body : Bodies, code : {None, 202, 400, 403}]
       /\ request.body \in {None, body}
       /\ request.at # "answered" <=> request.code = None
       /\ request.at # "guard" => (request.code # 403 <=> IsAllowed(caller))
       /\ request.at = "service" => request.body = body /\ FitsDto(body)
       /\ request.code \in {202, 400} =>
            (request.code = 202 <=> FitsDto(body) /\ FitsService(request.in.key, body))

FrontDoorInv == StartInv /\ RequestInv

\* What the validation asks of SMS_PROVIDER_PRIORITY.
LEMMA ValidPriority ==
  ASSUME NEW e \in Environments, IsValidEnvironment(e)
  PROVE  /\ Trimmed(e.priority) \in Seq(STRING)
         /\ Trimmed(e.priority) # <<>>
         /\ PriorityIsValid(Trimmed(e.priority))
         /\ Range(Trimmed(e.priority)) \subseteq SupportedProviders
  <1>1. e.priority \in Seq([name : STRING, padded : BOOLEAN]) /\ e.priority # <<>>
    BY EnvironmentsAssumption
  <1>2. Trimmed(e.priority) \in Seq(STRING) /\ Trimmed(e.priority) # <<>>
    <2> DEFINE words == e.priority
               n == Len(words)
    <2>1. n \in Nat /\ DOMAIN words = 1..n /\ \A i \in 1..n : words[i].name \in STRING
      <3>1. n \in Nat /\ DOMAIN words = 1..n
        BY <1>1
      <3>2. \A i \in 1..n : words[i] \in [name : STRING, padded : BOOLEAN]
        <4> DEFINE Words == [name : STRING, padded : BOOLEAN]
        <4>1. words \in Seq(Words)
          BY <1>1
        <4> HIDE DEF Words, words
        <4>2. \A i \in 1..n : words[i] \in Words
          BY <4>1
        <4> QED
          BY <4>2 DEF Words
      <3> QED
        BY <3>1, <3>2
    <2>2. n # 0
      BY <1>1
    <2>3. Trimmed(words) = [i \in 1..n |-> words[i].name]
      BY <2>1 DEF Trimmed
    <2> HIDE DEF words, n
    <2>4. Trimmed(words) \in Seq(STRING) /\ Len(Trimmed(words)) = n
      BY <2>1, <2>3
    <2> QED
      BY <2>2, <2>4 DEF words
  <1> QED
    BY <1>2 DEF IsValidEnvironment, PriorityIsValid

\* A process that is down satisfies the invariant.
LEMMA FrontDoorInit == Init => FrontDoorInv
  BY DEF Init, FrontDoorInv, StartInv, RequestInv, NetworksAreParsed, Stages,
         OnlySidOrNetworksStopAStart

\* No step breaks what is known of the start.
LEMMA StartStep ==
  ASSUME StartInv, [Next]_vars
  PROVE  StartInv'
  <1> USE DEF StartInv, OnlySidOrNetworksStopAStart
  <1>1. CASE ValidateEnvironment
    <2>1. PICK e \in Environments :
            /\ env' = e
            /\ IF IsValidEnvironment(e)
               THEN stage' = "starting" /\ priority' = Trimmed(e.priority)
               ELSE stage' = "refused" /\ UNCHANGED priority
      BY <1>1 DEF ValidateEnvironment
    <2> QED
      BY <1>1, <2>1 DEF ValidateEnvironment, NetworksAreParsed, Stages
  <1>2. CASE BuildProviders
    <2>1. IsValidEnvironment(env) /\ priority = Trimmed(env.priority) /\ env \in Environments
      BY <1>2 DEF BuildProviders
    <2>2. Range(priority) \subseteq SupportedProviders
      BY <2>1, ValidPriority
    <2>3. {name \in Range(priority) : name \in SupportedProviders} = Range(priority)
      BY <2>2
    <2>4. ASSUME \E name \in Range(priority) : ~CanConstruct(name, env)
          PROVE  "twilio" \in Range(Trimmed(env.priority)) /\ ~env.sidIsAccounts
      <3>1. \A name \in Range(priority) : RequiredCredentials[name] \subseteq env.credentials
        BY <2>1 DEF IsValidEnvironment, CredentialsPresent
      <3>2. \A name \in SupportedProviders : ReadByStrategy[name] \subseteq RequiredCredentials[name]
        BY DEF SupportedProviders, ReadByStrategy, RequiredCredentials
      <3> QED
        BY <2>1, <2>2, <2>4, <3>1, <3>2 DEF CanConstruct
    <2>5. CASE \A name \in Range(priority) : CanConstruct(name, env)
      BY <1>2, <2>3, <2>5 DEF BuildProviders, NetworksAreParsed
    <2>6. CASE ~\A name \in Range(priority) : CanConstruct(name, env)
      <3>1. /\ stage' = "faulty" /\ env' = env /\ registry' = registry
            /\ priority' = priority /\ networks' = networks
        BY <1>2, <2>3, <2>6 DEF BuildProviders
      <3>2. "twilio" \in Range(Trimmed(env.priority)) /\ ~env.sidIsAccounts
        BY <2>4, <2>6
      <3>3. OnlySidOrNetworksStopAStart'
        BY <3>1, <3>2
      <3> HIDE DEF OnlySidOrNetworksStopAStart
      <3>4. NetworksAreParsed'
        BY <3>1 DEF NetworksAreParsed
      <3> QED
        BY <1>2, <2>1, <3>1, <3>3, <3>4 DEF Stages, BuildProviders
    <2> QED
      BY <2>5, <2>6
  <1>3. CASE BuildGuard
    BY <1>3 DEF BuildGuard, NetworksAreParsed, Stages
  <1>4. CASE Listen
    BY <1>4 DEF Listen, NetworksAreParsed, Stages, IsValidEnvironment
  <1>5. CASE Stop
    BY <1>5 DEF Stop, NetworksAreParsed, Stages
  <1>6. CASE UNCHANGED <<env, stage, priority, registry, networks>>
    BY <1>6 DEF NetworksAreParsed
  <1>7. CASE Arrive \/ CheckCaller \/ CheckBody \/ AcceptMessage \/ Depart \/ UNCHANGED vars
    BY <1>6, <1>7 DEF Arrive, CheckCaller, CheckBody, AcceptMessage, Check, Depart, vars
  <1> QED
    BY <1>1, <1>2, <1>3, <1>4, <1>5, <1>7 DEF Next

\* No step breaks what is known of the request.
LEMMA RequestStep ==
  ASSUME StartInv, RequestInv, [Next]_vars
  PROVE  RequestInv'
  <1>0. None \notin {202, 400, 403}
    BY NoneAssumption
  <1>1. CASE ValidateEnvironment \/ BuildProviders \/ BuildGuard \/ Listen
    <2>1. request = None /\ request' = None
      BY <1>1 DEF RequestInv, ValidateEnvironment, BuildProviders, BuildGuard, Listen
    <2> QED
      BY <2>1 DEF RequestInv
  <1>2. CASE Stop \/ Depart
    BY <1>2 DEF Stop, Depart, RequestInv
  <1>3. CASE Arrive
    BY <1>0, <1>3 DEF Arrive, RequestInv, Bodies
  <1>4. ASSUME request # None
        PROVE  /\ stage = "up"
               /\ request \in [in : SendRequests, at : {"guard", "pipe", "service", "answered"},
                               body : Bodies, code : {None, 202, 400, 403}]
               /\ request.body \in {None, Transformed(request.in.body)}
               /\ request.at # "answered" => request.code = None
               /\ request.at \in {"pipe", "service"} => IsAllowed(request.in.caller)
               /\ request.at = "service" =>
                    /\ request.body = Transformed(request.in.body)
                    /\ FitsDto(Transformed(request.in.body))
    BY <1>0, <1>4 DEF RequestInv
  <1>5. ASSUME request # None
         PROVE  request = [in |-> request.in, at |-> request.at, body |-> request.body,
                   code |-> request.code]
    BY <1>4, <1>5
  <1>6. ASSUME request'.in = request.in, networks' = networks
        PROVE  IsAllowed(request.in.caller)' <=> IsAllowed(request.in.caller)
    BY <1>6 DEF IsAllowed
  <1>7. CASE CheckCaller
    <2>1. /\ request # None /\ request.at = "guard" /\ stage' = stage /\ networks' = networks
          /\ request' = IF IsAllowed(request.in.caller)
                        THEN [request EXCEPT !.at = "pipe"]
                        ELSE [request EXCEPT !.at = "answered", !.code = 403]
      BY <1>7 DEF CheckCaller, Check
    <2>2. request'.in = request.in
      BY <1>4, <2>1
    <2>3. IsAllowed(request.in.caller)' <=> IsAllowed(request.in.caller)
      BY <1>6, <2>1, <2>2
    <2>4. CASE IsAllowed(request.in.caller)
      <3>1. request' = [in |-> request.in, at |-> "pipe", body |-> request.body, code |-> None]
        <4>1. request.code = None
          BY <1>4, <2>1
        <4> QED
          BY <1>5, <2>1, <2>4, <4>1
      <3> QED
        BY <1>0, <1>4, <2>1, <2>3, <2>4, <3>1 DEF RequestInv
    <2>5. CASE ~IsAllowed(request.in.caller)
      <3>1. request' = [in |-> request.in, at |-> "answered", body |-> request.body, code |-> 403]
        <4>1. request.code = None
          BY <1>4, <2>1
        <4> QED
          BY <1>5, <2>1, <2>5, <4>1
      <3> QED
        BY <1>0, <1>4, <2>1, <2>3, <2>5, <3>1 DEF RequestInv
    <2> QED
      BY <2>4, <2>5
  <1>8. CASE CheckBody
    <2> DEFINE body == Transformed(request.in.body)
    <2>1. /\ request # None /\ request.at = "pipe" /\ stage' = stage /\ networks' = networks
          /\ request' = IF FitsDto(body)
                        THEN [request EXCEPT !.at = "service", !.body = body]
                        ELSE [request EXCEPT !.at = "answered", !.code = 400]
      BY <1>8 DEF CheckBody, Check
    <2>2. request'.in = request.in
      BY <1>4, <2>1
    <2>3. IsAllowed(request.in.caller)' <=> IsAllowed(request.in.caller)
      BY <1>6, <2>1, <2>2
    <2>4. CASE FitsDto(body)
      <3>1. request' = [in |-> request.in, at |-> "service", body |-> body, code |-> None]
        <4>1. request.code = None
          BY <1>4, <2>1
        <4> QED
          BY <1>5, <2>1, <2>4, <4>1
      <3>2. body \in Bodies
        BY <1>4, <2>1 DEF Bodies
      <3>3. Transformed(request.in.body)' = body
        BY <3>1 DEF Transformed
      <3> HIDE DEF body
      <3> QED
        BY <1>0, <1>4, <2>1, <2>3, <2>4, <3>1, <3>2, <3>3 DEF RequestInv
    <2>5. CASE ~FitsDto(body)
      <3>1. request' = [in |-> request.in, at |-> "answered", body |-> request.body, code |-> 400]
        <4>1. request.code = None
          BY <1>4, <2>1
        <4> QED
          BY <1>5, <2>1, <2>5, <4>1
      <3> QED
        BY <1>0, <1>4, <2>1, <2>3, <2>5, <3>1 DEF RequestInv
    <2> QED
      BY <2>4, <2>5
  <1>9. CASE AcceptMessage
    <2>1. /\ request # None /\ request.at = "service" /\ stage' = stage /\ networks' = networks
          /\ request' = IF FitsService(request.in.key, request.body)
                        THEN [request EXCEPT !.at = "answered", !.code = 202]
                        ELSE [request EXCEPT !.at = "answered", !.code = 400]
      BY <1>9 DEF AcceptMessage, Check
    <2>2. request'.in = request.in
      BY <1>4, <2>1
    <2>3. IsAllowed(request.in.caller)' <=> IsAllowed(request.in.caller)
      BY <1>6, <2>1, <2>2
    <2>4. CASE FitsService(request.in.key, request.body)
      <3>1. request' = [in |-> request.in, at |-> "answered", body |-> request.body, code |-> 202]
        <4>1. request.code = None
          BY <1>4, <2>1
        <4> QED
          BY <1>5, <2>1, <2>4, <4>1
      <3> QED
        BY <1>0, <1>4, <2>1, <2>3, <2>4, <3>1 DEF RequestInv
    <2>5. CASE ~FitsService(request.in.key, request.body)
      <3>1. request' = [in |-> request.in, at |-> "answered", body |-> request.body, code |-> 400]
        <4>1. request.code = None
          BY <1>4, <2>1
        <4> QED
          BY <1>5, <2>1, <2>5, <4>1
      <3> QED
        BY <1>0, <1>4, <2>1, <2>3, <2>5, <3>1 DEF RequestInv
    <2> QED
      BY <2>4, <2>5
  <1>10. CASE UNCHANGED vars
    BY <1>10 DEF vars, RequestInv, IsAllowed
  <1> QED
    BY <1>1, <1>2, <1>3, <1>7, <1>8, <1>9, <1>10 DEF Next

\* The invariant holds in every state.
LEMMA FrontDoorInvariant == Spec => []FrontDoorInv
  <1>1. FrontDoorInv /\ [Next]_vars => FrontDoorInv'
    BY StartStep, RequestStep DEF FrontDoorInv
  <1> QED
    BY FrontDoorInit, <1>1, PTL DEF Spec

-----------------------------------------------------------------------------
(* The providers.                                                           *)

\* A registry of the whole priority leaves nothing out.
LEMMA NoneIsSkipped ==
  ASSUME priority \in Seq(STRING), registry = Range(priority)
  PROVE  OrderedProviders = priority
  <1> DEFINE n == Len(priority)
             Collects(f) ==
               f = [i \in 0..n |->
                      CASE i = 0 -> <<>>
                        [] i > 0 /\ priority[i] \in registry -> Append(f[i - 1], priority[i])
                        [] OTHER -> f[i - 1]]
             prefix == [i \in 0..n |-> SubSeq(priority, 1, i)]
  <1>1. n \in Nat /\ \A i \in 1..n : priority[i] \in registry
    BY DEF Range
  <1>2. ASSUME NEW i \in 1..n
        PROVE  SubSeq(priority, 1, i) = Append(SubSeq(priority, 1, i - 1), priority[i])
    OBVIOUS
  <1>3. SubSeq(priority, 1, 0) = <<>> /\ SubSeq(priority, 1, n) = priority
    OBVIOUS
  <1>4. Collects(prefix)
    <2>1. ASSUME NEW i \in 0..n
          PROVE  prefix[i] = CASE i = 0 -> <<>>
                               [] i > 0 /\ priority[i] \in registry ->
                                    Append(prefix[i - 1], priority[i])
                               [] OTHER -> prefix[i - 1]
      BY <1>1, <1>2, <1>3
    <2>2. prefix = [i \in 0..n |-> prefix[i]]
      OBVIOUS
    <2> HIDE DEF prefix
    <2> QED
      BY <2>1, <2>2
  <1>5. ASSUME NEW f, Collects(f) PROVE f = prefix
    <2> DEFINE T == {i \in Nat : i <= n => f[i] = prefix[i]}
    <2> HIDE DEF prefix, n
    <2>1. 0 \in T
      BY <1>1, <1>4, <1>5
    <2>2. ASSUME NEW i \in Nat, i \in T PROVE i + 1 \in T
      <3> SUFFICES ASSUME i + 1 <= n PROVE f[i + 1] = prefix[i + 1]
        OBVIOUS
      <3>1. i \in 0..n /\ i + 1 \in 0..n /\ i + 1 \in 1..n /\ (i + 1) - 1 = i
        BY <1>1
      <3>2. f[i] = prefix[i] /\ priority[i + 1] \in registry
        BY <1>1, <2>2, <3>1
      <3>3. f[i + 1] = Append(f[i], priority[i + 1])
        BY <1>5, <3>1, <3>2
      <3>4. prefix[i + 1] = Append(prefix[i], priority[i + 1])
        BY <1>4, <3>1, <3>2
      <3> QED
        BY <3>2, <3>3, <3>4
    <2> HIDE DEF T
    <2>3. Nat \subseteq T
      BY <2>1, <2>2, SetInduction
    <2>4. ASSUME NEW i \in 0..n PROVE f[i] = prefix[i]
      <3>1. i \in T /\ i <= n
        BY <1>1, <2>3
      <3> QED
        BY <3>1 DEF T
    <2>5. f = [i \in 0..n |-> f[i]] /\ prefix = [i \in 0..n |-> prefix[i]]
      BY <1>4, <1>5
    <2> QED
      BY <2>4, <2>5
  <1>6. OrderedProviders = (CHOOSE f : Collects(f))[n]
    BY DEF OrderedProviders
  <1>7. (CHOOSE f : Collects(f)) = prefix
    <2> HIDE DEF Collects, prefix
    <2> QED
      BY <1>4, <1>5
  <1>8. prefix[n] = priority
    BY <1>1, <1>3
  <1> HIDE DEF prefix, Collects
  <1> QED
    BY <1>6, <1>7, <1>8

-----------------------------------------------------------------------------
(* The properties.                                                          *)

\* The pieces of PRIVATE_NETWORK_CIDRS are texts.
LEMMA EntriesAreTexts ==
  ASSUME NEW e \in Environments
  PROVE  Entries(e) \subseteq EntryTexts
  <1>1. e.networks \in Seq(EntryTexts \cup {None})
    BY EnvironmentsAssumption
  <1> DEFINE S == EntryTexts \cup {None}
  <1> HIDE DEF S
  <1>2. \A i \in DOMAIN e.networks : e.networks[i] \in S
    BY <1>1 DEF S
  <1> QED
    BY <1>2 DEF Entries, Range, S

\* The numbers of a stored network fit its version.
LEMMA TypeOfNetworks ==
  ASSUME StartInv, networks # None, NEW cidr \in networks
  PROVE  /\ cidr.version \in Versions
         /\ cidr.prefix \in 0..TotalBits(cidr.version)
         /\ cidr.value \in 0..(TwoTo[TotalBits(cidr.version)] - 1)
  <1>1. stage # "down" /\ env \in Environments
    BY DEF StartInv
  <1>2. PICK entry \in Entries(env) : IsCidr(entry) /\ cidr = ParseCidr(entry)
    BY DEF StartInv, NetworksAreParsed
  <1>3. entry \in EntryTexts
    BY <1>1, <1>2, EntriesAreTexts
  <1> DEFINE version == VersionOf(entry.address)
             ip == ParseIp(entry.address)
  <1>4. entry.address \in Texts /\ IsIp(entry.address)
    BY <1>2, <1>3 DEF EntryTexts, IsCidr
  <1>5. /\ ip.version = version /\ version \in Versions
        /\ ip.value \in Nat /\ ip.value < TwoTo[TotalBits(version)]
    BY <1>4, ParsedIsBounded
  <1>6. TotalBits(version) \in Nat
    BY <1>5, WidthsAreNat
  <1>7. TwoTo[TotalBits(version)] \in Nat
    BY <1>6, TwoToDef
  <1>8. PrefixOf(entry, version) \in 0..TotalBits(version)
    <2>1. PrefixOf(entry, version) <= TotalBits(version)
      BY <1>2, <1>5 DEF IsCidr
    <2>2. PrefixOf(entry, version) \in Nat
      BY <1>3, <1>6 DEF PrefixOf, EntryTexts
    <2> QED
      BY <1>6, <2>1, <2>2
  <1>9. /\ cidr.version = version
        /\ cidr.value = ip.value
        /\ cidr.prefix = PrefixOf(entry, version)
    BY <1>2, <1>5 DEF ParseCidr
  <1> HIDE DEF version, ip
  <1> QED
    BY <1>5, <1>6, <1>7, <1>8, <1>9

\* Every state has the types the constructors and checks give it; in particular
\* the numbers of a stored network fit its version's width (parseCidr).
THEOREM FrontDoorTypeCorrect == Spec => []FrontDoorTypeOK
  <1>1. FrontDoorInv => FrontDoorTypeOK
    <2> SUFFICES ASSUME FrontDoorInv PROVE FrontDoorTypeOK
      OBVIOUS
    <2>1. stage \in Stages /\ env \in Environments \cup {None}
      BY DEF FrontDoorInv, StartInv
    <2>2. priority = None \/ PriorityIsValid(priority)
      BY DEF FrontDoorInv, StartInv, Stages, IsValidEnvironment
    <2>3. registry = None \/ registry \subseteq SupportedProviders
      BY <2>2 DEF FrontDoorInv, StartInv, Stages, IsValidEnvironment, PriorityIsValid
    <2>4. networks # None =>
            \A cidr \in networks :
              /\ cidr.version \in Versions
              /\ cidr.prefix \in 0..TotalBits(cidr.version)
              /\ cidr.value \in 0..(TwoTo[TotalBits(cidr.version)] - 1)
      BY TypeOfNetworks DEF FrontDoorInv
    <2>5. request # None =>
            /\ request.in \in SendRequests
            /\ request.at \in {"guard", "pipe", "service", "answered"}
            /\ request.body \in {None, Transformed(request.in.body)}
            /\ request.code \in (IF request.at = "answered" THEN {202, 400, 403} ELSE {None})
      BY NoneAssumption DEF FrontDoorInv, RequestInv
    <2> QED
      BY <2>1, <2>2, <2>3, <2>4, <2>5 DEF FrontDoorTypeOK
  <1> QED
    BY <1>1, FrontDoorInvariant, PTL

\* Whatever passes the validation starts, unless a network is none or Twilio is
\* configured with an account SID that is none: no constructor or hook that reads
\* the environment again throws for another reason.
THEOREM ValidEnvironmentsStart == Spec => []OnlySidOrNetworksStopAStart
  <1>1. FrontDoorInv => OnlySidOrNetworksStopAStart
    BY DEF FrontDoorInv, StartInv
  <1> QED
    BY <1>1, FrontDoorInvariant, PTL

\* A process that serves has every provider it was deployed with, in the order of
\* SMS_PROVIDER_PRIORITY, with the secret of its delivery reports.
THEOREM ServesAllProviders == Spec => []ProvidersAreComplete
  <1>1. FrontDoorInv => ProvidersAreComplete
    <2> SUFFICES ASSUME FrontDoorInv, stage = "up"
                 PROVE  /\ OrderedProviders = Trimmed(env.priority)
                        /\ OrderedProviders # <<>>
                        /\ \A name \in Range(OrderedProviders) :
                             WebhookSecret[name] \in env.credentials
      BY DEF ProvidersAreComplete
    <2>1. /\ env \in Environments /\ IsValidEnvironment(env)
          /\ priority = Trimmed(env.priority) /\ registry = Range(priority)
      BY DEF FrontDoorInv, StartInv
    <2>2. /\ priority \in Seq(STRING) /\ priority # <<>>
          /\ Range(priority) \subseteq SupportedProviders
      BY <2>1, ValidPriority
    <2>3. OrderedProviders = priority
      BY <2>1, <2>2, NoneIsSkipped
    <2>4. \A name \in Range(priority) : RequiredCredentials[name] \subseteq env.credentials
      BY <2>1 DEF IsValidEnvironment, CredentialsPresent
    <2>5. \A name \in SupportedProviders : WebhookSecret[name] \in RequiredCredentials[name]
      BY DEF SupportedProviders, WebhookSecret, RequiredCredentials
    <2>6. \A name \in Range(priority) : WebhookSecret[name] \in env.credentials
      BY <2>2, <2>4, <2>5
    <2> QED
      BY <2>1, <2>2, <2>3, <2>6
  <1> QED
    BY <1>1, FrontDoorInvariant, PTL

\* The guard lets a caller pass iff the bits of its address begin with the prefix
\* of a listed network, for all widths of addresses.
THEOREM GuardIsExact == Spec => []CallersAreOfTheNetworks
  <1>1. FrontDoorInv => CallersAreOfTheNetworks
    <2> DEFINE caller == request.in.caller
    <2> SUFFICES ASSUME FrontDoorInv, request # None, request.at # "guard"
                 PROVE  request.code # 403 <=>
                          /\ caller # None
                          /\ \E entry \in Entries(env) : IsInBlock(caller, entry)
      BY DEF CallersAreOfTheNetworks
    <2>1. stage = "up" /\ caller \in Texts \cup {None}
      BY RequestsAssumption DEF FrontDoorInv, RequestInv
    <2>2. request.code # 403 <=> IsAllowed(caller)
      BY DEF FrontDoorInv, RequestInv
    <2>3. /\ env \in Environments
          /\ networks = {ParseCidr(entry) : entry \in Entries(env)}
          /\ \A entry \in Entries(env) : IsCidr(entry)
      BY <2>1 DEF FrontDoorInv, StartInv, NetworksAreParsed
    <2>4. Entries(env) \subseteq EntryTexts
      BY <2>3, EntriesAreTexts
    <2> HIDE DEF caller
    <2>5. CASE caller = None \/ ~IsIp(caller)
      BY <2>2, <2>5 DEF IsAllowed, IsInBlock, IsIp
    <2>6. CASE caller # None /\ IsIp(caller)
      <3>1. \A entry \in Entries(env) :
              Matches(ParseIp(caller), ParseCidr(entry)) <=> IsInBlock(caller, entry)
        BY <2>1, <2>3, <2>4, <2>6, MatchesIsInBlock
      <3>2. IsAllowed(caller) <=>
              \E entry \in Entries(env) : Matches(ParseIp(caller), ParseCidr(entry))
        BY <2>3, <2>6 DEF IsAllowed
      <3> QED
        BY <2>2, <2>6, <3>1, <3>2
    <2> QED
      BY <2>5, <2>6
  <1> QED
    BY <1>1, FrontDoorInvariant, PTL

\* The two validators together accept exactly the requests with a key whose
\* message and metadata are within the limits (send-sms.dto, sms.service).
THEOREM AcceptanceIsExact == Spec => []AcceptedAreWithinLimits
  <1>1. FrontDoorInv => AcceptedAreWithinLimits
    <2> DEFINE in == request.in
               body == in.body
    <2> SUFFICES ASSUME FrontDoorInv, request # None, request.code \in {202, 400}
                 PROVE  request.code = 202 <=>
                          /\ in.key \notin {"absent", "blank"}
                          /\ body.e164
                          /\ body.message \in 1..MaxMessageLength
                          /\ body.metadata # None =>
                               /\ ~body.oversized
                               /\ body.metadata.kind = "object"
                               /\ IsWithinLimits(Converted[body.metadata])
      BY DEF AcceptedAreWithinLimits
    <2> DEFINE piped == Transformed(body)
    <2>1. in \in SendRequests /\ (request.code = 202 <=> FitsDto(piped) /\ FitsService(in.key, piped))
      BY DEF FrontDoorInv, RequestInv
    <2>2. MaxMessageLength \in Nat /\ body.message \in Nat \cup {None} /\ None \notin Nat
      BY <2>1, RequestsAssumption, NoneAssumption
    <2>5. body \in [e164 : BOOLEAN, message : Nat \cup {None},
                   metadata : Items \cup {None}, oversized : BOOLEAN]
      BY <2>1, RequestsAssumption
    <2>6. /\ piped.e164 = body.e164 /\ piped.message = body.message
          /\ piped.oversized = body.oversized
          /\ piped.metadata = IF body.metadata = None THEN None ELSE Converted[body.metadata]
      BY <2>5 DEF Transformed
    <2>3. (body.message # None /\ body.message > 0) /\ body.message <= MaxMessageLength
          <=> body.message \in 1..MaxMessageLength
      BY <2>2
    <2>4. body.metadata # None =>
            /\ piped.metadata # None
            /\ piped.metadata.kind = body.metadata.kind
            /\ IsBoundedMetadata(piped.metadata) <=> IsWithinLimits(Converted[body.metadata])
      <3> SUFFICES ASSUME body.metadata # None
                   PROVE  /\ piped.metadata # None
                          /\ piped.metadata.kind = body.metadata.kind
                          /\ IsBoundedMetadata(piped.metadata) <=>
                               IsWithinLimits(Converted[body.metadata])
        OBVIOUS
      <3>1. body.metadata \in Items /\ piped.metadata = Converted[body.metadata]
        BY <2>5, <2>6
      <3> HIDE DEF piped
      <3> QED
        BY <3>1, ConvertedType, InspectionIsExact, NoneAssumption
    <2> HIDE DEF piped
    <2> QED
      BY <2>1, <2>3, <2>4, <2>6 DEF FitsDto, FitsService
  <1> QED
    BY <1>1, FrontDoorInvariant, PTL

=============================================================================
