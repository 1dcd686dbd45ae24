------------------------ MODULE PrivateNetworksProofs ------------------------
(***************************************************************************)
(* The guard's arithmetic compares the bits of two addresses, for every    *)
(* number and width of their groups.  The first section is induction and   *)
(* recursion on the naturals, stated about sets and functions, so that no  *)
(* lemma needs an operator as its parameter.                               *)
(***************************************************************************)
EXTENDS PrivateNetworks, WellFoundedInduction, TLAPS

-----------------------------------------------------------------------------
(* Induction and recursion on the naturals, without operator parameters.    *)

\* The numbers are well founded by their order (NaturalsInduction).
LEMMA NatIsWellFounded == IsWellFoundedOn({p \in Nat \X Nat : p[1] < p[2]}, Nat)
  BY NatLessThanWellFounded DEF OpToRel

\* A set of numbers that is not empty has a least one.
LEMMA LeastNumber ==
  ASSUME NEW T, T \subseteq Nat, T # {}
  PROVE  \E n \in T : \A m \in T : n <= m
  <1> DEFINE R == {p \in Nat \X Nat : p[1] < p[2]}
  <1>1. \E n \in T : \A m \in T : ~ (<<m, n>> \in R)
    <2>1. IsWellFoundedOn(R, Nat)
      BY NatIsWellFounded
    <2> HIDE DEF R
    <2> QED
      BY <2>1, WFMin
  <1>2. PICK n \in T : \A m \in T : ~ (<<m, n>> \in R)
    BY <1>1
  <1>3. ASSUME NEW m \in T PROVE n <= m
    <2>1. <<m, n>> \notin R
      BY <1>2
    <2>2. m \in Nat /\ n \in Nat
      OBVIOUS
    <2> QED
      BY <2>1, <2>2
  <1> QED
    BY <1>3

\* Induction, as a statement about the set of numbers it is shown for.
LEMMA SetInduction ==
  ASSUME NEW T, 0 \in T, \A n \in Nat : n \in T => n + 1 \in T
  PROVE  Nat \subseteq T
  <1> SUFFICES ASSUME Nat \ T # {} PROVE FALSE
    OBVIOUS
  <1>1. PICK n \in Nat \ T : \A m \in Nat \ T : n <= m
    BY LeastNumber
  <1>2. n - 1 \in Nat /\ n - 1 \in T
    BY <1>1
  <1>3. (n - 1) + 1 \in T
    BY <1>2
  <1> QED
    BY <1>3

\* The values of S that begin with `start` and follow each other by `step`.
StepsOn(S) == [Nat -> [S -> S]]

Iterates(f, S, start, step) ==
  f \in [Nat -> S] /\ f[0] = start /\ \A n \in Nat : f[n + 1] = step[n][f[n]]

\* Whatever steps S allows, some function on Nat takes them one after the other.
LEMMA Iteration ==
  ASSUME NEW S, NEW start \in S, NEW step \in StepsOn(S)
  PROVE  \E f : Iterates(f, S, start, step)
  <1> USE DEF StepsOn, Iterates
  <1> DEFINE Begins(g, n) ==
               /\ g \in [0..n -> S]
               /\ g[0] = start
               /\ \A i \in 0..(n - 1) : g[i + 1] = step[i][g[i]]
  <1>1. \A n \in Nat : \E g : Begins(g, n)
    <2> DEFINE T == {n \in Nat : \E g : Begins(g, n)}
    <2>1. 0 \in T
      <3>1. Begins([i \in 0..0 |-> start], 0)
        OBVIOUS
      <3> QED
        BY <3>1
    <2>2. ASSUME NEW n \in Nat, n \in T PROVE n + 1 \in T
      <3>1. PICK g : Begins(g, n)
        BY <2>2
      <3> DEFINE h == [i \in 0..(n + 1) |-> IF i = n + 1 THEN step[n][g[n]] ELSE g[i]]
      <3>2. Begins(h, n + 1)
        <4>1. g[n] \in S /\ g[0] = start
          BY <3>1
        <4>2. h \in [0..(n + 1) -> S]
          BY <3>1, <4>1
        <4>3. h[0] = start
          BY <4>1
        <4>4. ASSUME NEW i \in 0..((n + 1) - 1) PROVE h[i + 1] = step[i][h[i]]
          <5>1. CASE i = n
            BY <5>1
          <5>2. CASE i # n
            <6>1. i \in 0..(n - 1) /\ i + 1 \in 0..n /\ i + 1 # n + 1
              BY <5>2
            <6>2. g[i + 1] = step[i][g[i]]
              BY <3>1, <6>1
            <6> QED
              BY <6>1, <6>2
          <5> QED
            BY <5>1, <5>2
        <4> HIDE DEF h
        <4> QED
          BY <4>2, <4>3, <4>4
      <3> HIDE DEF Begins, h
      <3> QED
        BY <3>2
    <2> HIDE DEF T
    <2>3. Nat \subseteq T
      BY <2>1, <2>2, SetInduction
    <2> QED
      BY <2>3 DEF T
  <1>2. ASSUME NEW m \in Nat, NEW n \in Nat, m <= n, NEW g, NEW h, Begins(g, m), Begins(h, n)
        PROVE  g[m] = h[m]
    <2> DEFINE T == {i \in Nat : i <= m => g[i] = h[i]}
    <2>1. 0 \in T
      BY <1>2
    <2>2. ASSUME NEW i \in Nat, i \in T PROVE i + 1 \in T
      <3>1. CASE i + 1 <= m
        <4>1. g[i] = h[i] /\ i \in 0..(m - 1) /\ i \in 0..(n - 1)
          BY <1>2, <2>2, <3>1
        <4> QED
          BY <1>2, <4>1
      <3> QED
        BY <3>1
    <2> HIDE DEF T
    <2>3. Nat \subseteq T
      BY <2>1, <2>2, SetInduction
    <2> QED
      BY <2>3 DEF T
  <1> DEFINE G(n) == CHOOSE g : Begins(g, n)
             f == [n \in Nat |-> G(n)[n]]
  <1>3. \A n \in Nat : Begins(G(n), n)
    BY <1>1
  <1> HIDE DEF G
  <1>4. f \in [Nat -> S]
    BY <1>3
  <1>5. f[0] = start
    BY <1>3
  <1>6. ASSUME NEW n \in Nat PROVE f[n + 1] = step[n][f[n]]
    <2>1. G(n + 1)[n + 1] = step[n][G(n + 1)[n]]
      BY <1>3
    <2>2. Begins(G(n + 1), n + 1) /\ Begins(G(n), n)
      BY <1>3
    <2> HIDE DEF Begins
    <2>3. G(n)[n] = G(n + 1)[n]
      BY <1>2, <2>2
    <2> QED
      BY <2>1, <2>3
  <1> QED
    BY <1>4, <1>5, <1>6

-----------------------------------------------------------------------------
(* Powers of two.                                                           *)

\* The powers of two are what their recursive definition says.
LEMMA TwoToDef ==
  /\ TwoTo \in [Nat -> Nat \ {0}]
  /\ TwoTo[0] = 1
  /\ \A n \in Nat : TwoTo[n + 1] = 2 * TwoTo[n]
  <1> DEFINE step == [n \in Nat |-> [v \in Nat \ {0} |-> 2 * v]]
             Doubles(f) == f = [n \in Nat |-> IF n = 0 THEN 1 ELSE 2 * f[n - 1]]
  <1>1. step \in [Nat -> [Nat \ {0} -> Nat \ {0}]]
    OBVIOUS
  <1>2. PICK f \in [Nat -> Nat \ {0}] :
          f[0] = 1 /\ \A n \in Nat : f[n + 1] = step[n][f[n]]
    <2> DEFINE S == Nat \ {0}
    <2>1. 1 \in S /\ step \in StepsOn(S)
      BY <1>1 DEF StepsOn
    <2> HIDE DEF S
    <2>2. PICK f : Iterates(f, S, 1, step)
      BY <2>1, Iteration
    <2> HIDE DEF step
    <2> QED
      BY <2>2 DEF S, Iterates
  <1>3. \A n \in Nat : f[n + 1] = 2 * f[n]
    BY <1>2
  <1>4. Doubles(f)
    <2>1. ASSUME NEW n \in Nat, n # 0 PROVE f[n] = 2 * f[n - 1]
      <3>1. n - 1 \in Nat /\ (n - 1) + 1 = n
        BY <2>1
      <3> QED
        BY <1>3, <3>1
    <2> QED
      BY <1>2, <2>1
  <1>5. Doubles(TwoTo)
    <2>1. TwoTo = CHOOSE g : Doubles(g)
      BY DEF TwoTo
    <2> HIDE DEF Doubles
    <2> QED
      BY <1>4, <2>1
  <1>6. TwoTo[0] = 1
    BY <1>5
  <1>7. ASSUME NEW n \in Nat PROVE TwoTo[n + 1] = 2 * TwoTo[n]
    BY <1>5
  <1>8. Nat \subseteq {n \in Nat : TwoTo[n] \in Nat \ {0}}
    <2> DEFINE T == {n \in Nat : TwoTo[n] \in Nat \ {0}}
    <2>1. 0 \in T
      BY <1>6
    <2>2. ASSUME NEW n \in Nat, n \in T PROVE n + 1 \in T
      BY <1>7, <2>2
    <2> HIDE DEF T
    <2>3. Nat \subseteq T
      BY <2>1, <2>2, SetInduction
    <2> QED
      BY <2>3 DEF T
  <1>9. TwoTo = [n \in Nat |-> TwoTo[n]]
    BY <1>5
  <1> QED
    BY <1>6, <1>7, <1>8, <1>9

\* Powers multiply as their exponents add.
LEMMA TwoToSum ==
  ASSUME NEW m \in Nat, NEW n \in Nat
  PROVE  TwoTo[m + n] = TwoTo[m] * TwoTo[n]
  <1> DEFINE T == {k \in Nat : TwoTo[m + k] = TwoTo[m] * TwoTo[k]}
  <1>1. 0 \in T
    BY TwoToDef
  <1>2. ASSUME NEW k \in Nat, k \in T PROVE k + 1 \in T
    <2>1. TwoTo[m + k + 1] = 2 * TwoTo[m + k] /\ TwoTo[k + 1] = 2 * TwoTo[k]
      BY TwoToDef
    <2>2. TwoTo[m] \in Nat /\ TwoTo[k] \in Nat
      BY TwoToDef
    <2> QED
      BY <1>2, <2>1, <2>2
  <1> HIDE DEF T
  <1>3. n \in T
    BY <1>1, <1>2, SetInduction
  <1> QED
    BY <1>3 DEF T

-----------------------------------------------------------------------------
(* Quotients.                                                               *)

\* A multiple of the divisor adds its factor to the quotient.
LEMMA QuotientOfSum ==
  ASSUME NEW d \in Nat \ {0}, NEW q \in Nat, NEW r \in Nat
  PROVE  (q * d + r) \div d = q + r \div d
  OBVIOUS

\* A remainder below the divisor leaves the quotient alone.
LEMMA RowQuotient ==
  ASSUME NEW d \in Nat \ {0}, NEW q \in Nat, NEW r \in Nat, r < d
  PROVE  (q * d + r) \div d = q
  OBVIOUS

\* Dividing twice is dividing by the product.
LEMMA QuotientOfQuotient ==
  ASSUME NEW c \in Nat \ {0}, NEW d \in Nat \ {0}, NEW v \in Nat
  PROVE  (v \div c) \div d = v \div (c * d)
  OBVIOUS

\* A number is its quotient and its remainder put together.
LEMMA QuotientIsNat ==
  ASSUME NEW d \in Nat \ {0}, NEW v \in Nat
  PROVE  /\ v \div d \in Nat
         /\ v % d \in 0..(d - 1)
         /\ v = d * (v \div d) + (v % d)
  OBVIOUS

\* Two numbers agree on their first bits iff they agree under the mask.
LEMMA MaskComparesBits ==
  ASSUME NEW W \in Nat, NEW U \in Nat, NEW V \in Nat,
         U < TwoTo[W], V < TwoTo[W], NEW p \in 0..W
  PROVE  U \div TwoTo[W - p] = V \div TwoTo[W - p]
         <=> \A i \in 1..p : (U \div TwoTo[W - i]) % 2 = (V \div TwoTo[W - i]) % 2
  <1> DEFINE Agree(q) == U \div TwoTo[W - q] = V \div TwoTo[W - q]
             Same(i) == (U \div TwoTo[W - i]) % 2 = (V \div TwoTo[W - i]) % 2
             T == {q \in Nat : q <= W => (Agree(q) <=> \A i \in 1..q : Same(i))}
  <1>1. 0 \in T
    <2>1. TwoTo[W - 0] \in Nat \ {0} /\ W - 0 = W
      BY TwoToDef
    <2>2. U \div TwoTo[W] = 0 /\ V \div TwoTo[W] = 0
      BY <2>1
    <2> QED
      BY <2>1, <2>2
  <1>2. ASSUME NEW q \in Nat, q \in T PROVE q + 1 \in T
    <2>1. SUFFICES ASSUME q + 1 <= W
                   PROVE  Agree(q + 1) <=> \A i \in 1..(q + 1) : Same(i)
      OBVIOUS
    <2> DEFINE d == TwoTo[W - (q + 1)]
    <2>2. d \in Nat \ {0} /\ TwoTo[W - q] = d * 2
      <3>1. W - (q + 1) \in Nat /\ (W - (q + 1)) + 1 = W - q
        BY <2>1
      <3> QED
        BY <3>1, TwoToDef
    <2> HIDE DEF d
    <2>3. U \div TwoTo[W - q] = (U \div d) \div 2 /\ V \div TwoTo[W - q] = (V \div d) \div 2
      BY <2>2, QuotientOfQuotient
    <2>4. U \div d \in Nat /\ V \div d \in Nat
      BY <2>2, QuotientIsNat
    <2>5. U \div d = V \div d
          <=> (U \div d) \div 2 = (V \div d) \div 2 /\ (U \div d) % 2 = (V \div d) % 2
      BY <2>4
    <2>6. Agree(q + 1) <=> Agree(q) /\ Same(q + 1)
      BY <2>3, <2>5 DEF d
    <2>7. Agree(q) <=> \A i \in 1..q : Same(i)
      BY <1>2, <2>1
    <2>8. 1..(q + 1) = (1..q) \cup {q + 1}
      OBVIOUS
    <2> HIDE DEF Agree, Same
    <2> QED
      BY <2>6, <2>7, <2>8
  <1> HIDE DEF T
  <1>3. p \in T
    BY <1>1, <1>2, SetInduction
  <1> QED
    BY <1>3 DEF T

-----------------------------------------------------------------------------
(* The value of a row of groups.                                            *)

\* v[k] is the value of the first k groups.
ValuesOf(v, groups, bits) ==
  /\ v \in [0..Len(groups) -> Nat]
  /\ v[0] = 0
  /\ \A k \in 1..Len(groups) : v[k] = v[k - 1] * TwoTo[bits] + groups[k]

\* The reduce of ipv4ToBigInt and ipv6ToBigInt, unfolded.
LEMMA ValueDef ==
  ASSUME NEW groups \in Seq(Nat), NEW bits \in Nat
  PROVE  \E v : ValuesOf(v, groups, bits) /\ Value(groups, bits) = v[Len(groups)]
  <1> DEFINE B == TwoTo[bits]
             n == Len(groups)
             step == [k \in Nat |-> [u \in Nat |-> IF k < n THEN u * B + groups[k + 1] ELSE u]]
             Sums(v) == v = [k \in 0..n |-> IF k = 0 THEN 0 ELSE v[k - 1] * B + groups[k]]
  <1>1. B \in Nat /\ n \in Nat /\ \A k \in 1..n : groups[k] \in Nat
    <2>1. B \in Nat
      BY TwoToDef
    <2>2. n \in Nat /\ \A k \in 1..n : groups[k] \in Nat
      OBVIOUS
    <2> QED
      BY <2>1, <2>2
  <1>2. step \in StepsOn(Nat)
    <2> HIDE DEF B, n
    <2>1. ASSUME NEW k \in Nat, NEW u \in Nat, k < n PROVE u * B + groups[k + 1] \in Nat
      BY <1>1, <2>1
    <2> QED
      BY <2>1 DEF StepsOn
  <1>3. PICK f : Iterates(f, Nat, 0, step)
    <2> HIDE DEF step
    <2> QED
      BY <1>2, Iteration
  <1> DEFINE v == [k \in 0..n |-> f[k]]
  <1> HIDE DEF B, n
  <1>4. f \in [Nat -> Nat] /\ f[0] = 0
    BY <1>3 DEF Iterates
  <1>5. ASSUME NEW k \in 1..n PROVE f[k] = f[k - 1] * B + groups[k]
    <2>1. k - 1 \in Nat /\ (k - 1) + 1 = k /\ k - 1 < n
      BY <1>1
    <2>2. f[k] = step[k - 1][f[k - 1]]
      BY <1>3, <2>1 DEF Iterates
    <2> QED
      BY <1>4, <2>1, <2>2
  <1> HIDE DEF step
  <1>6. v[0] = 0 /\ v \in [0..n -> Nat] /\ \A k \in 1..n : v[k] = v[k - 1] * B + groups[k]
    BY <1>1, <1>4, <1>5
  <1>7. Sums(v)
    <2>1. v = [k \in 0..n |-> v[k]]
      OBVIOUS
    <2>2. ASSUME NEW k \in 0..n PROVE v[k] = IF k = 0 THEN 0 ELSE v[k - 1] * B + groups[k]
      <3>1. CASE k = 0
        BY <1>6, <3>1
      <3>2. CASE k # 0
        <4>1. k \in 1..n
          BY <1>1, <3>2
        <4> HIDE DEF v
        <4> QED
          BY <1>6, <3>2, <4>1
      <3> QED
        BY <3>1, <3>2
    <2> HIDE DEF v
    <2> QED
      BY <2>1, <2>2
  <1> HIDE DEF v
  <1>8. Value(groups, bits) = (CHOOSE u : Sums(u))[n]
    BY DEF Value, B, n
  <1>9. \A u : Sums(u) => u = v
    <2> SUFFICES ASSUME NEW u, Sums(u) PROVE u = v
      OBVIOUS
    <2> DEFINE T == {k \in Nat : k <= n => u[k] = v[k]}
    <2>1. 0 \in T
      BY <1>1, <1>7
    <2>2. ASSUME NEW k \in Nat, k \in T PROVE k + 1 \in T
      BY <1>1, <1>7, <2>2
    <2> HIDE DEF T
    <2>3. Nat \subseteq T
      BY <2>1, <2>2, SetInduction
    <2>4. ASSUME NEW k \in 0..n PROVE u[k] = v[k]
      <3>1. k \in T /\ k <= n
        BY <1>1, <2>3
      <3> QED
        BY <3>1 DEF T
    <2>5. u = [k \in 0..n |-> u[k]] /\ v = [k \in 0..n |-> v[k]]
      BY <1>7
    <2> QED
      BY <2>4, <2>5
  <1>10. (CHOOSE u : Sums(u)) = v
    <2> HIDE DEF Sums
    <2> QED
      BY <1>7, <1>9
  <1>11. ValuesOf(v, groups, bits)
    BY <1>6 DEF ValuesOf, B, n
  <1> QED
    BY <1>8, <1>10, <1>11 DEF n

\* Groups of so many bits.
IsRow(groups, bits) == groups \in Seq(Nat) /\ \A k \in 1..Len(groups) : groups[k] < TwoTo[bits]

\* The first k groups are what is left when the others are shifted out.
LEMMA ValuesAreQuotients ==
  ASSUME NEW groups, NEW bits \in Nat, IsRow(groups, bits),
         NEW v, ValuesOf(v, groups, bits), NEW k \in 0..Len(groups)
  PROVE  v[k] = v[Len(groups)] \div TwoTo[(Len(groups) - k) * bits]
  <1> DEFINE n == Len(groups)
             T == {j \in Nat : j <= n => v[n - j] = v[n] \div TwoTo[j * bits]}
  <1>1. n \in Nat /\ v \in [0..n -> Nat]
    BY DEF IsRow, ValuesOf
  <1>2. 0 \in T
    <2>1. 0 * bits = 0 /\ n - 0 = n /\ v[n] \in Nat
      BY <1>1
    <2>2. v[n] \div 1 = v[n]
      BY <2>1
    <2> QED
      BY <2>1, <2>2, TwoToDef
  <1>3. ASSUME NEW j \in Nat, j \in T PROVE j + 1 \in T
    <2> SUFFICES ASSUME j + 1 <= n PROVE v[n - (j + 1)] = v[n] \div TwoTo[(j + 1) * bits]
      OBVIOUS
    <2>1. n - j \in 1..n /\ (n - j) - 1 = n - (j + 1)
      BY <1>1
    <2> DEFINE u == v[n - (j + 1)]
               g == groups[n - j]
               B == TwoTo[bits]
    <2>2. u \in Nat /\ g \in Nat /\ g < B /\ v[n - j] = u * B + g
      <3>1. (n - j) - 1 \in 0..n
        BY <1>1, <2>1
      <3>2. v[n - j] = v[(n - j) - 1] * B + groups[n - j]
        BY <2>1 DEF ValuesOf
      <3>3. g \in Nat /\ g < B
        BY <2>1 DEF IsRow
      <3> QED
        BY <1>1, <2>1, <3>1, <3>2, <3>3
    <2>3. j * bits \in Nat /\ (j + 1) * bits = j * bits + bits
      OBVIOUS
    <2> DEFINE C == TwoTo[j * bits]
               x == v[n]
    <2>4. TwoTo[(j + 1) * bits] = C * B /\ C \in Nat \ {0} /\ B \in Nat \ {0} /\ x \in Nat
      <3>1. TwoTo[j * bits + bits] = C * B
        BY <2>3, TwoToSum
      <3>2. C \in Nat \ {0} /\ B \in Nat \ {0}
        BY <2>3, TwoToDef
      <3>3. x \in Nat
        BY <1>1
      <3> HIDE DEF C, B, x
      <3> QED
        BY <2>3, <3>1, <3>2, <3>3
    <2>5. x \div TwoTo[(j + 1) * bits] = (x \div C) \div B
      <3> HIDE DEF B, C, x
      <3>1. (x \div C) \div B = x \div (C * B)
        BY <2>4, QuotientOfQuotient
      <3> QED
        BY <2>4, <3>1
    <2>6. v[n] \div TwoTo[j * bits] = u * B + g
      BY <1>1, <1>3, <2>1, <2>2
    <2>7. (u * B + g) \div B = u
      <3> HIDE DEF u, g, B
      <3> QED
        BY <2>2, <2>4, RowQuotient
    <2> QED
      BY <2>5, <2>6, <2>7
  <1> HIDE DEF T
  <1>4. n - k \in T
    BY <1>1, <1>2, <1>3, SetInduction
  <1>5. n - (n - k) = k /\ n - k <= n
    BY <1>1
  <1> QED
    BY <1>4, <1>5 DEF T

\* A digit in base d below a number of c values stays below c * d.
LEMMA ProductBound ==
  ASSUME NEW c \in Nat, NEW d \in Nat, NEW q \in Nat, NEW r \in Nat, q < c, r < d
  PROVE  q * d + r < c * d
  <1>1. q + 1 <= c
    OBVIOUS
  <1>2. (q + 1) * d <= c * d
    BY <1>1
  <1>3. (q + 1) * d = q * d + d
    OBVIOUS
  <1> QED
    BY <1>2, <1>3

\* Groups of so many bits have a value of so many bits.
LEMMA ValueIsBounded ==
  ASSUME NEW groups, NEW bits \in Nat, IsRow(groups, bits)
  PROVE  Value(groups, bits) \in Nat /\ Value(groups, bits) < TwoTo[Len(groups) * bits]
  <1> DEFINE n == Len(groups)
  <1>1. groups \in Seq(Nat) /\ n \in Nat
    BY DEF IsRow
  <1>2. PICK v : ValuesOf(v, groups, bits) /\ Value(groups, bits) = v[n]
    BY <1>1, ValueDef
  <1> DEFINE T == {k \in Nat : k <= n => v[k] < TwoTo[k * bits]}
  <1>3. v \in [0..n -> Nat]
    BY <1>2 DEF ValuesOf
  <1>4. 0 \in T
    <2>1. 0 * bits = 0 /\ v[0] = 0
      BY <1>2 DEF ValuesOf
    <2>2. TwoTo[0] = 1
      BY TwoToDef
    <2> QED
      BY <2>1, <2>2
  <1>5. ASSUME NEW k \in Nat, k \in T PROVE k + 1 \in T
    <2> SUFFICES ASSUME k + 1 <= n PROVE v[k + 1] < TwoTo[(k + 1) * bits]
      OBVIOUS
    <2> DEFINE u == v[k]
               g == groups[k + 1]
               B == TwoTo[bits]
               C == TwoTo[k * bits]
    <2>1. k + 1 \in 1..n /\ (k + 1) - 1 = k /\ k \in 0..n
      BY <1>1
    <2>2. v[k + 1] = u * B + g
      BY <1>2, <2>1 DEF ValuesOf
    <2>3. g \in Nat /\ g < B
      BY <2>1 DEF IsRow
    <2>4. u \in Nat /\ u < C
      BY <1>3, <1>5, <2>1
    <2>5. k * bits \in Nat /\ (k + 1) * bits = k * bits + bits
      OBVIOUS
    <2>6. TwoTo[(k + 1) * bits] = C * B
      BY <2>5, TwoToSum
    <2>7. B \in Nat /\ C \in Nat
      BY <2>5, TwoToDef
    <2> HIDE DEF u, g, B, C
    <2> QED
      BY <2>2, <2>3, <2>4, <2>6, <2>7, ProductBound
  <1> HIDE DEF T
  <1>6. n \in T
    BY <1>1, <1>4, <1>5, SetInduction
  <1> QED
    BY <1>1, <1>2, <1>3, <1>6 DEF T

\* The group that bit i of a row falls into, and its place there.
GroupOf(i, bits) == ((i - 1) \div bits) + 1
\* And its place in that group.
PlaceOf(i, bits) == (i - 1) % bits

\* Counted from the right, bit i is in the groups after its own or in its own.
LEMMA BitPosition ==
  ASSUME NEW n \in Nat, NEW bits \in Nat \ {0}, NEW i \in 1..(n * bits)
  PROVE  /\ GroupOf(i, bits) \in 1..n
         /\ PlaceOf(i, bits) \in 0..(bits - 1)
         /\ n * bits - i = (n - GroupOf(i, bits)) * bits + (bits - 1 - PlaceOf(i, bits))
  <1> DEFINE k == GroupOf(i, bits)
             r == PlaceOf(i, bits)
  <1>1. i - 1 \in Nat /\ n * bits \in Nat
    OBVIOUS
  <1> DEFINE q == (i - 1) \div bits
  <1>2. q \in Nat /\ r \in 0..(bits - 1) /\ i - 1 = bits * q + r
    BY <1>1, QuotientIsNat DEF PlaceOf
  <1>3. k = q + 1
    BY DEF GroupOf
  <1> HIDE DEF q, k, r
  <1>4. q < n
    <2> SUFFICES ASSUME n <= q PROVE FALSE
      BY <1>2
    <2>1. n * bits <= q * bits
      BY <1>2
    <2> QED
      BY <1>1, <1>2, <2>1
  <1>5. (n - (q + 1)) * bits = n * bits - bits * q - bits
    BY <1>2
  <1>6. n * bits - i = (n * bits - bits * q - bits) + (bits - 1 - r)
    BY <1>1, <1>2
  <1>7. k \in 1..n
    BY <1>2, <1>3, <1>4
  <1> QED
    BY <1>2, <1>3, <1>5, <1>6, <1>7 DEF k, r

\* Bit i of the value is a bit of the group it falls into.
LEMMA ValueBits ==
  ASSUME NEW groups, NEW bits \in Nat \ {0}, IsRow(groups, bits),
         NEW i \in 1..(Len(groups) * bits)
  PROVE  (Value(groups, bits) \div TwoTo[Len(groups) * bits - i]) % 2
         = (groups[GroupOf(i, bits)] \div TwoTo[bits - 1 - PlaceOf(i, bits)]) % 2
  <1> DEFINE n == Len(groups)
             k == GroupOf(i, bits)
             r == PlaceOf(i, bits)
             e == bits - 1 - r
  <1>1. groups \in Seq(Nat) /\ n \in Nat
    BY DEF IsRow
  <1>2. k \in 1..n /\ r \in 0..(bits - 1) /\ n * bits - i = (n - k) * bits + e
    <2> HIDE DEF n
    <2>1. i \in 1..(n * bits)
      BY DEF n
    <2> QED
      BY <1>1, <2>1, BitPosition
  <1>3. PICK v : ValuesOf(v, groups, bits) /\ Value(groups, bits) = v[n]
    BY <1>1, ValueDef
  <1> DEFINE V == v[n]
             C == TwoTo[(n - k) * bits]
             E == TwoTo[e]
             R == TwoTo[r]
             u == v[k - 1]
             g == groups[k]
  <1>4. e \in Nat /\ r \in Nat /\ (n - k) * bits \in Nat /\ e + 1 \in Nat /\ (e + 1) + r = bits
    <2>1. e \in Nat /\ r \in Nat /\ (e + 1) + r = bits
      BY <1>2
    <2>2. n - k \in Nat
      BY <1>1, <1>2
    <2> HIDE DEF e, n
    <2>3. (n - k) * bits \in Nat
      BY <2>2
    <2> QED
      BY <2>1, <2>3
  <1>5. C \in Nat \ {0} /\ E \in Nat \ {0} /\ R \in Nat \ {0}
    BY <1>4, TwoToDef
  <1>6. TwoTo[n * bits - i] = C * E
    BY <1>2, <1>4, TwoToSum
  <1>7. TwoTo[bits] = (2 * E) * R
    <2>1. TwoTo[e + 1] = 2 * E
      BY <1>4, TwoToDef
    <2>2. TwoTo[(e + 1) + r] = TwoTo[e + 1] * R
      BY <1>4, TwoToSum
    <2> QED
      BY <1>4, <2>1, <2>2
  <1>8. V \in Nat /\ u \in Nat /\ g \in Nat
    <2>1. v \in [0..n -> Nat]
      BY <1>3 DEF ValuesOf
    <2>2. n \in 0..n /\ k - 1 \in 0..n
      BY <1>1, <1>2
    <2>3. g \in Nat
      BY <1>1, <1>2
    <2> QED
      BY <2>1, <2>2, <2>3
  <1>9. V \div C = v[k]
    <2>1. k \in 0..Len(groups)
      BY <1>2
    <2> QED
      BY <1>3, <2>1, ValuesAreQuotients
  <1>10. v[k] = u * TwoTo[bits] + g
    BY <1>2, <1>3 DEF ValuesOf
  <1> HIDE DEF V, C, E, R, u, g, e, k
  <1>11. V \div (C * E) = (V \div C) \div E
    BY <1>5, <1>8, QuotientOfQuotient
  <1>12. v[k] = (2 * (u * R)) * E + g
    BY <1>5, <1>7, <1>8, <1>10
  <1>13. ((2 * (u * R)) * E + g) \div E = 2 * (u * R) + g \div E
    <2>1. 2 * (u * R) \in Nat
      BY <1>5, <1>8
    <2> QED
      BY <1>5, <1>8, <2>1, QuotientOfSum
  <1>14. (2 * (u * R) + (g \div E)) % 2 = (g \div E) % 2
    <2>1. g \div E \in Nat
      BY <1>5, <1>8, QuotientIsNat
    <2>2. u * R \in Nat
      BY <1>5, <1>8
    <2> QED
      BY <2>1, <2>2
  <1> QED
    BY <1>3, <1>6, <1>9, <1>11, <1>12, <1>13, <1>14 DEF V, E, g, e, k

-----------------------------------------------------------------------------
(* Texts.                                                                   *)

\* The version of an address.
VersionOf(text) == IF IsV4(text) THEN 4 ELSE 6

\* The groups a text stands for.
RowOf(text) == IF IsV4(text) THEN text.head ELSE Expanded(text)

\* Widths are numbers.
LEMMA WidthsAreNat ==
  ASSUME NEW version \in Versions
  PROVE  Bits(version) \in Nat \ {0} /\ TotalBits(version) \in Nat
  <1>1. Bits(version) \in Nat \ {0}
    BY WidthsAssumption DEF Bits
  <1>2. (IF version = 4 THEN Octets ELSE Groups) \in Nat
    BY WidthsAssumption
  <1> QED
    BY <1>1, <1>2 DEF TotalBits

\* With its zeros filled in, a text with "::" has all its groups.
LEMMA RowOfShortened ==
  ASSUME NEW text \in Texts, IsV6(text), text.tail # None
  PROVE  /\ Expanded(text) \in Seq(Nat)
         /\ Len(Expanded(text)) = Groups
         /\ \A k \in 1..Groups : Expanded(text)[k] = GroupAt(text, k)
         /\ \A k \in 1..Groups : Expanded(text)[k] < TwoTo[GroupBits]
  <1> DEFINE head == text.head
             tail == text.tail
             z == Groups - Len(head) - Len(tail)
             zeros == [i \in 1..z |-> 0]
  <1>1. head \in Seq(Nat) /\ tail \in Seq(Nat)
    BY DEF Texts
  <1>2. Len(head) + Len(tail) < Groups /\ Groups \in Nat
    BY WidthsAssumption DEF IsV6
  <1>3. Len(head) \in Nat /\ Len(tail) \in Nat /\ z \in Nat /\ Groups = Len(head) + z + Len(tail)
    <2>1. Len(head) \in Nat /\ Len(tail) \in Nat
      BY <1>1
    <2> HIDE DEF head, tail
    <2> QED
      BY <1>2, <2>1
  <1>4. zeros \in Seq(Nat) /\ Len(zeros) = z /\ \A i \in 1..z : zeros[i] = 0
    <2> HIDE DEF z
    <2> QED
      BY <1>3
  <1>5. Expanded(text) = head \o zeros \o tail
    BY DEF Expanded
  <1>6. ASSUME NEW k \in 1..Groups PROVE Expanded(text)[k] = GroupAt(text, k)
    <2> HIDE DEF z, zeros
    <2>1. GroupAt(text, k) = CASE k <= Len(head) -> head[k]
                               [] k > Len(head) + z -> tail[k - Len(head) - z]
                               [] OTHER -> 0
      BY DEF GroupAt, z
    <2> HIDE DEF head, tail
    <2>2. CASE k <= Len(head)
      BY <1>1, <1>3, <1>4, <1>5, <2>1, <2>2
    <2>3. CASE k > Len(head) /\ k <= Len(head) + z
      BY <1>1, <1>3, <1>4, <1>5, <2>1, <2>3
    <2>4. CASE k > Len(head) + z
      BY <1>1, <1>3, <1>4, <1>5, <2>1, <2>4
    <2> QED
      BY <1>3, <2>2, <2>3, <2>4
  <1>7. ASSUME NEW k \in 1..Groups PROVE GroupAt(text, k) < TwoTo[GroupBits]
    <2>1. TwoTo[GroupBits] \in Nat \ {0}
      BY WidthsAssumption, TwoToDef
    <2>2. /\ \A j \in 1..Len(head) : head[j] < TwoTo[GroupBits]
          /\ \A j \in 1..Len(tail) : tail[j] < TwoTo[GroupBits]
      BY DEF IsV6
    <2> HIDE DEF head, tail, z
    <2>3. CASE k <= Len(head)
      <3>1. GroupAt(text, k) = head[k] /\ k \in 1..Len(head)
        BY <1>3, <2>3 DEF GroupAt, head, tail, z
      <3> QED
        BY <2>2, <3>1
    <2>4. CASE k > Len(head) + z
      <3>1. k - Len(head) - z \in 1..Len(tail)
        BY <1>3, <2>4
      <3> QED
        BY <1>3, <2>2, <2>4, <3>1 DEF GroupAt, head, tail, z
    <2>5. CASE k > Len(head) /\ ~(k > Len(head) + z)
      BY <1>3, <2>1, <2>5 DEF GroupAt, head, tail, z
    <2> QED
      BY <1>3, <2>3, <2>4, <2>5
  <1>8. Expanded(text) \in Seq(Nat) /\ Len(Expanded(text)) = Groups
    <2> HIDE DEF head, tail, z, zeros
    <2> QED
      BY <1>1, <1>3, <1>4, <1>5
  <1> QED
    BY <1>6, <1>7, <1>8

\* An address is the value of a row of groups of its version.
LEMMA RowOfText ==
  ASSUME NEW text \in Texts, IsIp(text)
  PROVE  /\ IsRow(RowOf(text), Bits(VersionOf(text)))
         /\ Len(RowOf(text)) * Bits(VersionOf(text)) = TotalBits(VersionOf(text))
         /\ ParseIp(text) = [version |-> VersionOf(text),
                             value |-> Value(RowOf(text), Bits(VersionOf(text)))]
         /\ \A k \in 1..Len(RowOf(text)) :
              RowOf(text)[k] = IF IsV4(text) \/ text.tail = None THEN text.head[k]
                                                                 ELSE GroupAt(text, k)
  <1>1. text.head \in Seq(Nat)
    BY DEF Texts
  <1>2. CASE IsV4(text)
    <2>1. RowOf(text) = text.head /\ VersionOf(text) = 4 /\ Bits(4) = OctetBits
      BY <1>2 DEF RowOf, VersionOf, Bits
    <2>2. Len(text.head) = Octets /\ \A k \in 1..Octets : text.head[k] < TwoTo[OctetBits]
      BY <1>2 DEF IsV4
    <2> QED
      BY <1>1, <1>2, <2>1, <2>2 DEF IsRow, TotalBits, ParseIp
  <1>3. CASE ~IsV4(text) /\ text.tail = None
    <2>1. RowOf(text) = text.head /\ VersionOf(text) = 6 /\ Bits(6) = GroupBits
      BY <1>3 DEF RowOf, VersionOf, Bits, Expanded
    <2>2. Len(text.head) = Groups /\ \A k \in 1..Groups : text.head[k] < TwoTo[GroupBits]
      BY <1>3 DEF IsIp, IsV6
    <2>3. Expanded(text) = text.head
      BY <1>3 DEF Expanded
    <2> QED
      BY <1>1, <1>3, <2>1, <2>2, <2>3 DEF IsRow, TotalBits, ParseIp
  <1>4. CASE ~IsV4(text) /\ text.tail # None
    <2>1. RowOf(text) = Expanded(text) /\ VersionOf(text) = 6 /\ Bits(6) = GroupBits
      BY <1>4 DEF RowOf, VersionOf, Bits
    <2>2. IsV6(text)
      BY <1>4 DEF IsIp
    <2> QED
      BY <1>4, <2>1, <2>2, RowOfShortened DEF IsRow, TotalBits, ParseIp
  <1> QED
    BY <1>2, <1>3, <1>4

\* What ParseIp computes is within its width.
LEMMA ParsedIsBounded ==
  ASSUME NEW text \in Texts, IsIp(text)
  PROVE  /\ ParseIp(text).version = VersionOf(text)
         /\ VersionOf(text) \in Versions
         /\ ParseIp(text).value \in Nat
         /\ ParseIp(text).value < TwoTo[TotalBits(VersionOf(text))]
  <1>1. VersionOf(text) \in Versions
    BY DEF VersionOf, Versions
  <1>2. Bits(VersionOf(text)) \in Nat
    BY <1>1, WidthsAreNat
  <1> QED
    BY <1>1, <1>2, RowOfText, ValueIsBounded

\* The bits of the parsed value are those of the text.
LEMMA ParsedBits ==
  ASSUME NEW text \in Texts, IsIp(text), NEW i \in 1..TotalBits(VersionOf(text))
  PROVE  Bit(text, i) = (ParseIp(text).value \div TwoTo[TotalBits(VersionOf(text)) - i]) % 2
  <1> DEFINE bits == Bits(VersionOf(text))
             row == RowOf(text)
  <1>1. VersionOf(text) \in Versions
    BY DEF VersionOf, Versions
  <1>2. bits \in Nat \ {0}
    BY <1>1, WidthsAreNat
  <1>3. IsRow(row, bits) /\ Len(row) * bits = TotalBits(VersionOf(text))
    BY RowOfText
  <1>4. (Value(row, bits) \div TwoTo[Len(row) * bits - i]) % 2
        = (row[GroupOf(i, bits)] \div TwoTo[bits - 1 - PlaceOf(i, bits)]) % 2
    <2> HIDE DEF bits, row
    <2> QED
      BY <1>2, <1>3, ValueBits
  <1>5. GroupOf(i, bits) \in 1..Len(row)
    <2>1. Len(row) \in Nat
      BY <1>3 DEF IsRow
    <2> HIDE DEF bits, row
    <2> QED
      BY <1>2, <1>3, <2>1, BitPosition
  <1>6. row[GroupOf(i, bits)] = IF IsV4(text) \/ text.tail = None
                                THEN text.head[GroupOf(i, bits)]
                                ELSE GroupAt(text, GroupOf(i, bits))
    BY <1>5, RowOfText
  <1>7. Bit(text, i) = (row[GroupOf(i, bits)] \div TwoTo[bits - 1 - PlaceOf(i, bits)]) % 2
    <2>1. bits = IF IsV4(text) THEN OctetBits ELSE GroupBits
      BY DEF Bits, VersionOf
    <2> HIDE DEF bits, row
    <2> QED
      BY <1>6, <2>1 DEF Bit, GroupOf, PlaceOf
  <1>8. ParseIp(text).value = Value(row, bits)
    BY RowOfText
  <1> HIDE DEF bits, row
  <1> QED
    BY <1>3, <1>4, <1>7, <1>8

\* A caller matches a parsed network iff its address begins with the network's
\* prefix, bit by bit (matches), whatever the widths, for all texts: no IPv6 with
\* a dotted tail but ::ffff:a.b.c.d.
THEOREM MatchesIsInBlock ==
  ASSUME NEW caller \in Texts, IsIp(caller), NEW entry \in EntryTexts, IsCidr(entry)
  PROVE  Matches(ParseIp(caller), ParseCidr(entry)) <=> IsInBlock(caller, entry)
  <1> DEFINE address == entry.address
             version == VersionOf(address)
             W == TotalBits(version)
             p == PrefixOf(entry, version)
             U == ParseIp(caller).value
             V == ParseIp(address).value
  <1>1. address \in Texts /\ IsIp(address)
    BY DEF EntryTexts, IsCidr
  <1>2. /\ ParseIp(address).version = version /\ version \in Versions
        /\ V \in Nat /\ V < TwoTo[W]
    BY <1>1, ParsedIsBounded
  <1>3. ParseIp(caller).version = VersionOf(caller) /\ U \in Nat /\ U < TwoTo[TotalBits(VersionOf(caller))]
    BY ParsedIsBounded
  <1>4. p \in 0..W
    <2>1. W \in Nat
      BY <1>2, WidthsAreNat
    <2>2. p \in Nat
      BY <2>1 DEF PrefixOf, EntryTexts
    <2>3. p <= W
      BY <1>2 DEF IsCidr
    <2> QED
      BY <2>1, <2>2, <2>3
  <1>5. ParseCidr(entry) = [version |-> version, value |-> V, prefix |-> p]
    BY <1>2 DEF ParseCidr
  <1>6. Matches(ParseIp(caller), ParseCidr(entry))
        <=> VersionOf(caller) = version /\ U \div TwoTo[W - p] = V \div TwoTo[W - p]
    <2> HIDE DEF address, version, p, U, V
    <2> QED
      BY <1>3, <1>5 DEF Matches, U
  <1>7. (IsV4(caller) /\ IsV4(address)) \/ (IsV6(caller) /\ IsV6(address))
        <=> VersionOf(caller) = version
    <2>1. /\ IsV4(caller) \/ IsV6(caller)
          /\ IsV4(address) \/ IsV6(address)
          /\ ~(IsV4(caller) /\ IsV6(caller))
          /\ ~(IsV4(address) /\ IsV6(address))
      BY <1>1 DEF IsIp, IsV4, IsV6
    <2>2. VersionOf(caller) = (IF IsV4(caller) THEN 4 ELSE 6) /\ version = (IF IsV4(address) THEN 4 ELSE 6)
      BY DEF VersionOf
    <2> HIDE DEF version, address
    <2> QED
      BY <2>1, <2>2
  <1>8. ASSUME VersionOf(caller) = version
        PROVE  U \div TwoTo[W - p] = V \div TwoTo[W - p]
               <=> \A i \in 1..p : Bit(caller, i) = Bit(address, i)
    <2>1. W \in Nat
      BY <1>2, WidthsAreNat
    <2>2. ASSUME NEW i \in 1..p
          PROVE  /\ Bit(caller, i) = (U \div TwoTo[W - i]) % 2
                 /\ Bit(address, i) = (V \div TwoTo[W - i]) % 2
      <3>1. i \in 1..W
        BY <1>4, <2>1
      <3> QED
        BY <1>1, <1>8, <3>1, ParsedBits
    <2>3. U < TwoTo[W]
      BY <1>3, <1>8
    <2> HIDE DEF U, V, W, p, address, version
    <2>4. U \div TwoTo[W - p] = V \div TwoTo[W - p]
          <=> \A i \in 1..p : (U \div TwoTo[W - i]) % 2 = (V \div TwoTo[W - i]) % 2
      BY <1>2, <1>3, <1>4, <2>1, <2>3, MaskComparesBits DEF U
    <2> QED
      BY <2>2, <2>4
  <1>9. IsInBlock(caller, entry)
        <=> VersionOf(caller) = version /\ \A i \in 1..p : Bit(caller, i) = Bit(address, i)
    <2>1. (IF IsV4(caller) THEN 4 ELSE 6) = VersionOf(caller)
      BY DEF VersionOf
    <2> HIDE DEF address, version
    <2> QED
      BY <1>7, <2>1 DEF IsInBlock, address
  <1> HIDE DEF U, V, W, p, address, version
  <1> QED
    BY <1>6, <1>8, <1>9

=============================================================================
