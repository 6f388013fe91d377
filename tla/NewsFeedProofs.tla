--------------------------- MODULE NewsFeedProofs ---------------------------
(***************************************************************************)
(* Proofs about NewsFeed: what is said, once, what it names, and that      *)
(* nothing is swallowed, for any wallets, transactions, limits, syncs,     *)
(* claims, failing saves and restarts, while blocks stay where they are.   *)
(***************************************************************************)
EXTENDS NewsFeed, FiniteSetTheorems, SequenceTheorems, WellFoundedInduction, TLAPS

-----------------------------------------------------------------------------
(* Induction and recursion over the natural numbers.                       *)

\* A set of numbers that is not empty has a smallest.
LEMMA Smallest ==
  ASSUME NEW S, S \subseteq Nat, S # {}
  PROVE  \E m \in S : \A n \in S : m <= n
<1>1. PICK m \in S : \A n \in S : ~ (<<n, m>> \in OpToRel(<, Nat))
  BY WFMin, NatLessThanWellFounded
<1>2. \A a, b \in Nat : a < b => <<a, b>> \in OpToRel(<, Nat)
  BY DEF OpToRel
<1>3. m \in Nat /\ \A n \in S : n \in Nat /\ ~(n < m)
  BY <1>1, <1>2
<1> QED BY <1>3

\* A set that has 0, and the next number of each it has, has them all.
LEMMA Induction ==
  ASSUME NEW S, 0 \in S, \A n \in Nat : n \in S => n + 1 \in S
  PROVE  Nat \subseteq S
<1> DEFINE B == {n \in Nat : n \notin S}
<1> SUFFICES ASSUME B # {} PROVE FALSE
  OBVIOUS
<1>1. PICK m \in B : \A n \in B : m <= n
  BY Smallest
<1>2. m # 0 /\ m \in Nat
  BY <1>1
<1>3. m - 1 \in Nat /\ m - 1 \notin B /\ (m - 1) + 1 = m
  BY <1>1, <1>2
<1> QED BY <1>1, <1>3

\* What a step from one number to the next makes of a first value.
Steps(g, m, v, step) ==
  g[0] = v /\ \A i \in 0..(m - 1) : g[i + 1] = step[<<i + 1, g[i]>>]

\* So many steps can be made from any first value.
LEMMA StepsExist ==
  ASSUME NEW V, NEW v \in V, NEW step \in [Nat \X V -> V]
  PROVE  \A m \in Nat : \E g \in [0..m -> V] : Steps(g, m, v, step)
<1> DEFINE S == {m \in Nat : \E g \in [0..m -> V] : Steps(g, m, v, step)}
<1>1. 0 \in S
  <2>1. [i \in 0..0 |-> v] \in [0..0 -> V] /\ Steps([i \in 0..0 |-> v], 0, v, step)
    BY DEF Steps
  <2> QED BY <2>1
<1>2. ASSUME NEW m \in Nat, m \in S PROVE m + 1 \in S
  <2>1. PICK g \in [0..m -> V] : Steps(g, m, v, step)
    BY <1>2
  <2> DEFINE h == [i \in 0..(m + 1) |-> IF i = m + 1 THEN step[<<m + 1, g[m]>>] ELSE g[i]]
  <2>2. g[m] \in V /\ step[<<m + 1, g[m]>>] \in V
    OBVIOUS
  <2>3. h \in [0..(m + 1) -> V]
    BY <2>2
  <2>4. h[0] = v
    BY <2>1 DEF Steps
  <2>5. ASSUME NEW i \in 0..m PROVE h[i + 1] = step[<<i + 1, h[i]>>]
    <3>1. CASE i = m
      <4>1. m \in 0..(m + 1) /\ m + 1 \in 0..(m + 1) /\ m # m + 1
        OBVIOUS
      <4>2. h[m] = g[m] /\ h[m + 1] = step[<<m + 1, g[m]>>]
        BY <4>1
      <4> QED BY <3>1, <4>2
    <3>2. CASE i # m
      <4>1. i \in 0..(m - 1) /\ i + 1 \in 0..m /\ i + 1 # m + 1 /\ i # m + 1
        BY <3>2
      <4>2. h[i + 1] = g[i + 1] /\ h[i] = g[i]
        BY <4>1
      <4> QED BY <2>1, <4>1, <4>2 DEF Steps
    <3> QED BY <3>1, <3>2
  <2>6. (m + 1) - 1 = m
    OBVIOUS
  <2> HIDE DEF h
  <2>7. Steps(h, m + 1, v, step)
    BY <2>4, <2>5, <2>6 DEF Steps
  <2> QED BY <2>3, <2>7
<1> HIDE DEF S
<1>3. Nat \subseteq S
  BY <1>1, <1>2, Induction
<1> QED BY <1>3 DEF S

\* Steps from the same value agree as far as both go.
LEMMA StepsAgree ==
  ASSUME NEW v, NEW step, NEW g, NEW h, NEW m \in Nat, NEW n \in Nat, m <= n,
         Steps(g, m, v, step), Steps(h, n, v, step)
  PROVE  \A i \in 0..m : g[i] = h[i]
<1> DEFINE S == {i \in Nat : i <= m => g[i] = h[i]}
<1>1. 0 \in S
  BY DEF Steps
<1>2. ASSUME NEW i \in Nat, i \in S PROVE i + 1 \in S
  <2> SUFFICES ASSUME i + 1 <= m PROVE g[i + 1] = h[i + 1]
    OBVIOUS
  <2>1. i \in 0..(m - 1) /\ i \in 0..(n - 1) /\ g[i] = h[i]
    BY <1>2
  <2> QED BY <2>1 DEF Steps
<1> HIDE DEF S
<1>3. Nat \subseteq S
  BY <1>1, <1>2, Induction
<1> QED BY <1>3 DEF S

\* A value for every number.
Recurs(f, v, step) == f[0] = v /\ \A n \in Nat : f[n + 1] = step[<<n + 1, f[n]>>]

\* A function defined by recursion on the numbers exists.
LEMMA Recursion ==
  ASSUME NEW V, NEW v \in V, NEW step \in [Nat \X V -> V]
  PROVE  \E f \in [Nat -> V] : Recurs(f, v, step)
<1> DEFINE G(m) == CHOOSE g \in [0..m -> V] : Steps(g, m, v, step)
           f == [m \in Nat |-> G(m)[m]]
<1>1. ASSUME NEW m \in Nat PROVE G(m) \in [0..m -> V] /\ Steps(G(m), m, v, step)
  BY StepsExist
<1> HIDE DEF G
<1>2. f \in [Nat -> V]
  <2>1. \A m \in Nat : G(m)[m] \in V
    BY <1>1
  <2> QED BY <2>1
<1>3. f[0] = v
  BY <1>1 DEF Steps
<1>4. ASSUME NEW n \in Nat PROVE f[n + 1] = step[<<n + 1, f[n]>>]
  <2>1. n + 1 \in Nat /\ n <= n + 1 /\ n \in 0..((n + 1) - 1) /\ n \in 0..n
    OBVIOUS
  <2>2. G(n + 1)[n] = G(n)[n]
    BY <1>1, <2>1, StepsAgree
  <2>3. G(n + 1)[n + 1] = step[<<n + 1, G(n + 1)[n]>>]
    BY <1>1, <2>1 DEF Steps
  <2> QED BY <2>1, <2>2, <2>3
<1> QED BY <1>2, <1>3, <1>4 DEF Recurs

\* Up to a number, what holds of 0 and of the next holds.
LEMMA InductionUpTo ==
  ASSUME NEW n \in Nat, NEW S, 0 \in S, \A k \in 1..n : k - 1 \in S => k \in S
  PROVE  \A k \in 0..n : k \in S
<1> DEFINE D == {k \in Nat : k <= n => k \in S}
<1>1. 0 \in D
  OBVIOUS
<1>2. ASSUME NEW k \in Nat, k \in D PROVE k + 1 \in D
  <2> SUFFICES ASSUME k + 1 <= n PROVE k + 1 \in S
    OBVIOUS
  <2>1. k + 1 \in 1..n /\ (k + 1) - 1 = k /\ k \in S
    BY <1>2
  <2> QED BY <2>1
<1> HIDE DEF D
<1>3. Nat \subseteq D
  BY <1>1, <1>2, Induction
<1> QED BY <1>3 DEF D

\* Up to a number, each value made of the one before.
UpTo(f, n, v, step) ==
  f = [k \in 0..n |-> IF k = 0 THEN v ELSE step[<<k, f[k - 1]>>]]

\* Such a function exists.
LEMMA RecursionUpTo ==
  ASSUME NEW V, NEW v \in V, NEW n \in Nat, NEW step \in [Nat \X V -> V]
  PROVE  \E f \in [0..n -> V] : UpTo(f, n, v, step)
<1>1. PICK f \in [Nat -> V] : Recurs(f, v, step)
  BY Recursion
<1> DEFINE g == [k \in 0..n |-> f[k]]
<1>2. g \in [0..n -> V]
  OBVIOUS
<1>3. ASSUME NEW k \in 0..n
      PROVE  g[k] = IF k = 0 THEN v ELSE step[<<k, g[k - 1]>>]
  <2>1. CASE k = 0
    BY <1>1, <2>1 DEF Recurs
  <2>2. CASE k # 0
    <3>1. k - 1 \in 0..n /\ k - 1 \in Nat /\ (k - 1) + 1 = k
      BY <2>2
    <3>2. f[k] = step[<<k, f[k - 1]>>]
      BY <1>1, <3>1 DEF Recurs
    <3>3. g[k] = f[k] /\ g[k - 1] = f[k - 1]
      BY <3>1
    <3> QED BY <2>2, <3>2, <3>3
  <2> QED BY <2>1, <2>2
<1>4. g = [k \in 0..n |-> g[k]]
  OBVIOUS
<1> HIDE DEF g
<1>5. UpTo(g, n, v, step)
  BY <1>3, <1>4 DEF UpTo
<1> QED BY <1>2, <1>5

\* Values that stay good, each made of the one before, exist.
LEMMA Fold ==
  ASSUME NEW n \in Nat, NEW V, NEW Good \in [0..n -> SUBSET V], NEW v \in Good[0], NEW F,
         \A k \in 1..n : \A q \in Good[k - 1] : F[<<k, q>>] \in Good[k]
  PROVE  \E f \in [0..n -> V] : UpTo(f, n, v, F) /\ \A k \in 0..n : f[k] \in Good[k]
<1> DEFINE step == [x \in Nat \X V |->
                      IF x[1] \in 1..n /\ x[2] \in Good[x[1] - 1] THEN F[<<x[1], x[2]>>] ELSE x[2]]
<1>1. ASSUME NEW k \in 1..n PROVE k - 1 \in 0..n /\ k \in 0..n /\ Good[k] \subseteq V
  OBVIOUS
<1>2. step \in [Nat \X V -> V]
  <2> SUFFICES ASSUME NEW k \in Nat, NEW q \in V
               PROVE  (IF k \in 1..n /\ q \in Good[k - 1] THEN F[<<k, q>>] ELSE q) \in V
    OBVIOUS
  <2> QED BY <1>1
<1>3. ASSUME NEW k \in 1..n, NEW q \in Good[k - 1] PROVE step[<<k, q>>] = F[<<k, q>>]
  <2>1. q \in V /\ k \in Nat
    BY <1>1
  <2> QED BY <2>1
<1> HIDE DEF step
<1>4. v \in V
  OBVIOUS
<1>5. PICK f \in [0..n -> V] : UpTo(f, n, v, step)
  BY <1>2, <1>4, RecursionUpTo
<1>6. ASSUME NEW k \in 0..n PROVE f[k] = IF k = 0 THEN v ELSE step[<<k, f[k - 1]>>]
  BY <1>5, Zenon DEF UpTo
<1> DEFINE D == {k \in 0..n : f[k] \in Good[k]}
<1>7. 0 \in D
  <2>1. 0 \in 0..n
    OBVIOUS
  <2>2. f[0] = v
    BY <1>6, <2>1, Zenon
  <2> QED BY <2>1, <2>2
<1>8. ASSUME NEW k \in 1..n, k - 1 \in D PROVE k \in D
  <2>1. k \in 0..n /\ k # 0 /\ f[k - 1] \in Good[k - 1]
    BY <1>8
  <2>2. f[k] = F[<<k, f[k - 1]>>]
    BY <1>3, <1>6, <2>1
  <2> QED BY <2>1, <2>2
<1> HIDE DEF D
<1>9. \A k \in 0..n : k \in D
  BY <1>7, <1>8, InductionUpTo
<1>10. \A k \in 0..n : f[k] \in Good[k]
  BY <1>9 DEF D
<1>11. ASSUME NEW k \in 0..n PROVE f[k] = IF k = 0 THEN v ELSE F[<<k, f[k - 1]>>]
  <2>1. CASE k # 0
    <3>1. k \in 1..n /\ k - 1 \in 0..n
      BY <2>1
    <3> QED BY <1>3, <1>6, <1>10, <2>1, <3>1
  <2> QED BY <1>6, <2>1
<1>12. f = [k \in 0..n |-> f[k]]
  OBVIOUS
<1>13. UpTo(f, n, v, F)
  BY <1>11, <1>12 DEF UpTo
<1> QED BY <1>10, <1>13

\* What starts good stays so, if each step leaves it good.
LEMMA Climb ==
  ASSUME NEW n \in Nat, NEW Good, NEW g, g[0] \in Good[0],
         \A k \in 1..n : g[k - 1] \in Good[k - 1] => g[k] \in Good[k]
  PROVE  \A k \in 0..n : g[k] \in Good[k]
<1> DEFINE D == {k \in 0..n : g[k] \in Good[k]}
<1>1. 0 \in D
  OBVIOUS
<1>2. ASSUME NEW k \in 1..n, k - 1 \in D PROVE k \in D
  BY <1>2
<1> HIDE DEF D
<1>3. \A k \in 0..n : k \in D
  BY <1>1, <1>2, InductionUpTo
<1> QED BY <1>3 DEF D

-----------------------------------------------------------------------------
(* Lists.                                                                  *)

\* No two of a list are the same news.
SameNews(a, b) == a.wallet = b.wallet /\ a.tx = b.tx /\ a.stage = b.stage
Apart(list) == \A i, j \in DOMAIN list : SameNews(list[i], list[j]) => i = j

\* An element put at the end of a list.
LEMMA AppendIs ==
  ASSUME NEW T, NEW list \in Seq(T), NEW x \in T
  PROVE  /\ Append(list, x) \in Seq(T) /\ Len(Append(list, x)) = Len(list) + 1
         /\ ToSet(Append(list, x)) = ToSet(list) \cup {x}
         /\ (Apart(list) /\ \A e \in ToSet(list) : ~SameNews(e, x)) => Apart(Append(list, x))
<1> DEFINE n == Len(list)
           more == Append(list, x)
<1>1. /\ more \in Seq(T) /\ n \in Nat /\ Len(more) = n + 1 /\ DOMAIN list = 1..n
      /\ DOMAIN more = 1..(n + 1)
      /\ more[n + 1] = x /\ \A k \in 1..n : more[k] = list[k]
  OBVIOUS
<1> HIDE DEF n, more
<1>2. \A k \in 1..(n + 1) : k \in 1..n \/ k = n + 1
  BY <1>1
<1>3. 1..n \subseteq 1..(n + 1) /\ n + 1 \in 1..(n + 1)
  BY <1>1
<1>4. ToSet(more) = ToSet(list) \cup {x}
  <2>1. \A y : y \in ToSet(more) <=> \E k \in 1..(n + 1) : y = more[k]
    BY <1>1 DEF ToSet
  <2>2. \A y : y \in ToSet(list) <=> \E k \in 1..n : y = list[k]
    BY <1>1 DEF ToSet
  <2> QED BY <1>1, <1>2, <1>3, <2>1, <2>2
<1>5. ASSUME Apart(list), \A e \in ToSet(list) : ~SameNews(e, x) PROVE Apart(more)
  <2>1. \A k \in 1..n : list[k] \in ToSet(list)
    BY <1>1 DEF ToSet
  <2>2. \A k \in 1..n : ~SameNews(list[k], x) /\ ~SameNews(x, list[k])
    BY <1>5, <2>1 DEF SameNews
  <2>3. \A i, j \in 1..n : SameNews(list[i], list[j]) => i = j
    BY <1>1, <1>5 DEF Apart
  <2>4. ASSUME NEW i \in 1..(n + 1), NEW j \in 1..(n + 1), SameNews(more[i], more[j])
        PROVE  i = j
    BY <1>1, <1>2, <2>2, <2>3, <2>4
  <2> QED BY <1>1, <2>4 DEF Apart
<1> QED BY <1>1, <1>4, <1>5 DEF more, n

\* What the recursion of Only builds.
Filters(f, list, some) ==
  f = [i \in 0..Len(list) |->
         IF i = 0 THEN << >>
         ELSE IF list[i] \in some THEN Append(f[i - 1], list[i]) ELSE f[i - 1]]

\* The function that filters a list, one element after the other, exists.
LEMMA FiltersExist ==
  ASSUME NEW T, NEW list \in Seq(T), NEW some
  PROVE  \E f \in [0..Len(list) -> Seq(T)] : Filters(f, list, some)
<1> DEFINE n == Len(list)
           V == Seq(T)
           none == << >>
           step == [x \in Nat \X V |->
                      IF x[1] \in 1..n /\ list[x[1]] \in some
                      THEN Append(x[2], list[x[1]]) ELSE x[2]]
<1>1. n \in Nat /\ none \in V /\ \A i \in 1..n : list[i] \in T
  OBVIOUS
<1>2. step \in [Nat \X V -> V]
  <2> SUFFICES ASSUME NEW x \in Nat \X V
               PROVE  (IF x[1] \in 1..n /\ list[x[1]] \in some
                       THEN Append(x[2], list[x[1]]) ELSE x[2]) \in V
    OBVIOUS
  <2>1. x[2] \in V
    OBVIOUS
  <2> QED BY <1>1, <2>1
<1>3. \A i \in 1..n, u \in V : step[<<i, u>>] =
         IF list[i] \in some THEN Append(u, list[i]) ELSE u
  BY <1>1
<1> HIDE DEF V, step, n, none
<1>4. PICK f \in [0..n -> V] : UpTo(f, n, none, step)
  BY <1>1, <1>2, RecursionUpTo
<1>5. ASSUME NEW i \in 0..n
      PROVE  f[i] = IF i = 0 THEN none
               ELSE IF list[i] \in some THEN Append(f[i - 1], list[i]) ELSE f[i - 1]
  <2>1. f[i] = IF i = 0 THEN none ELSE step[<<i, f[i - 1]>>]
    BY <1>4, Zenon DEF UpTo
  <2>2. CASE i # 0
    <3>1. i \in 1..n /\ f[i - 1] \in V
      BY <1>1, <2>2
    <3> QED BY <1>3, <2>1, <2>2, <3>1
  <2> QED BY <2>1, <2>2
<1>6. f = [i \in 0..n |-> f[i]]
  OBVIOUS
<1>7. Filters(f, list, some)
  BY <1>5, <1>6 DEF Filters, n, none
<1> QED BY <1>4, <1>7 DEF V, n

\* Only keeps what is in the set, in its order.
LEMMA OnlyIs ==
  ASSUME NEW T, NEW list \in Seq(T), NEW some
  PROVE  /\ Only(list, some) \in Seq(T)
         /\ Len(Only(list, some)) \in Nat /\ Len(Only(list, some)) <= Len(list)
         /\ ToSet(Only(list, some)) = ToSet(list) \cap some
         /\ Apart(list) => Apart(Only(list, some))
<1> DEFINE n == Len(list)
           f == CHOOSE f : Filters(f, list, some)
<1>1. n \in Nat /\ DOMAIN list = 1..n /\ \A i \in 1..n : list[i] \in T
  OBVIOUS
<1>2. Filters(f, list, some)
  BY FiltersExist
<1>3. Only(list, some) = f[n]
  BY DEF Only, Filters
<1> HIDE DEF f
<1>4. f[0] = << >>
  BY <1>1, <1>2 DEF Filters
<1>5. ASSUME NEW i \in 1..n
      PROVE  f[i] = IF list[i] \in some THEN Append(f[i - 1], list[i]) ELSE f[i - 1]
  <2>1. i \in 0..Len(list) /\ i # 0
    BY <1>1
  <2>2. f[i] = IF i = 0 THEN << >>
               ELSE IF list[i] \in some THEN Append(f[i - 1], list[i]) ELSE f[i - 1]
    BY <1>2, <2>1, Zenon DEF Filters
  <2> QED BY <2>1, <2>2
<1> DEFINE P(i) == /\ f[i] \in Seq(T) /\ Len(f[i]) <= i
                   /\ ToSet(f[i]) = {list[k] : k \in 1..i} \cap some
                   /\ Apart(list) => Apart(f[i])
           D == {i \in 0..n : P(i)}
<1>6. 0 \in D
  <2>1. f[0] \in Seq(T) /\ DOMAIN f[0] = {} /\ Len(f[0]) = 0
    BY <1>4
  <2>2. ToSet(f[0]) = {} /\ {list[k] : k \in 1..0} = {}
    BY <2>1 DEF ToSet
  <2>3. Apart(f[0])
    BY <2>1 DEF Apart
  <2> QED BY <1>1, <2>1, <2>2, <2>3
<1>7. ASSUME NEW i \in 1..n, i - 1 \in D PROVE i \in D
  <2> DEFINE j == i - 1
             s == f[j]
             x == list[i]
  <2>1. P(j) /\ x \in T /\ j \in Nat
    BY <1>1, <1>7
  <2>2. f[i] = IF x \in some THEN Append(s, x) ELSE s
    BY <1>5
  <2>3. {list[k] : k \in 1..i} = {list[k] : k \in 1..j} \cup {x}
    <3>1. 1..i = 1..j \cup {i}
      OBVIOUS
    <3> QED BY <3>1
  <2>4. i \in 0..n /\ j <= i /\ Len(s) \in Nat
    BY <1>1, <2>1
  <2>5. CASE x \notin some
    BY <2>1, <2>2, <2>3, <2>4, <2>5
  <2>6. CASE x \in some
    <3>1. f[i] = Append(s, x)
      BY <2>2, <2>6
    <3>2. ASSUME Apart(list), NEW e \in ToSet(s) PROVE ~SameNews(e, x)
      <4>1. PICK k \in 1..j : e = list[k]
        BY <2>1
      <4>2. k \in DOMAIN list /\ i \in DOMAIN list /\ k # i
        BY <1>1, <2>1
      <4> QED BY <3>2, <4>1, <4>2 DEF Apart
    <3>3. /\ f[i] \in Seq(T) /\ Len(f[i]) = Len(s) + 1 /\ ToSet(f[i]) = ToSet(s) \cup {x}
          /\ (Apart(s) /\ \A e \in ToSet(s) : ~SameNews(e, x)) => Apart(f[i])
      <4> HIDE DEF s, x
      <4>1. s \in Seq(T) /\ x \in T
        BY <2>1 DEF s
      <4> QED BY <3>1, <4>1, AppendIs
    <3>4. ToSet(f[i]) = {list[k] : k \in 1..i} \cap some
      BY <2>1, <2>3, <2>6, <3>3
    <3>5. Apart(list) => Apart(f[i])
      BY <2>1, <3>2, <3>3
    <3>6. Len(f[i]) <= i
      BY <2>1, <2>4, <3>3
    <3> QED BY <2>4, <3>3, <3>4, <3>5, <3>6
  <2> QED BY <2>5, <2>6
<1> HIDE DEF D
<1>8. n \in D
  <2>1. \A k \in 0..n : k \in D
    <3> HIDE DEF n
    <3> QED BY <1>1, <1>6, <1>7, InductionUpTo
  <2> QED BY <1>1, <2>1
<1>9. P(n) /\ {list[k] : k \in 1..n} = ToSet(list) /\ Len(f[n]) \in Nat
  BY <1>1, <1>8 DEF D, ToSet
<1> QED BY <1>3, <1>9

\* Find is 0 when nothing is found, and the place of what is otherwise.
LEMMA FindIs ==
  ASSUME NEW T, NEW list \in Seq(T), NEW some
  PROVE  \/ Find(list, some) = 0 /\ \A e \in ToSet(list) : e \notin some
         \/ /\ Find(list, some) \in DOMAIN list /\ Find(list, some) # 0
            /\ list[Find(list, some)] \in some
<1> DEFINE found == {i \in DOMAIN list : list[i] \in some}
<1>1. found \subseteq Nat /\ 0 \notin found
  OBVIOUS
<1>2. Find(list, some) = IF found = {} THEN 0
                         ELSE CHOOSE i \in found : \A j \in found : i <= j
  BY DEF Find
<1>3. CASE found = {}
  BY <1>2, <1>3 DEF ToSet
<1>4. CASE found # {}
  <2> HIDE DEF found
  <2>1. \E i \in found : \A j \in found : i <= j
    BY <1>1, <1>4, Smallest
  <2>2. Find(list, some) \in found
    BY <1>2, <1>4, <2>1
  <2> QED BY <1>1, <2>2 DEF found
<1> QED BY <1>3, <1>4

\* The last so many of a list.
LEMMA KeepLastIs ==
  ASSUME NEW T, NEW list \in Seq(T), NEW n \in Nat
  PROVE  /\ KeepLast(list, n) \in Seq(T) /\ Len(KeepLast(list, n)) \in Nat
         /\ Len(list) <= n => KeepLast(list, n) = list
         /\ Len(list) > n => Len(KeepLast(list, n)) = n
         /\ ToSet(KeepLast(list, n)) \subseteq ToSet(list)
         /\ Apart(list) => Apart(KeepLast(list, n))
<1>1. CASE Len(list) <= n
  <2>1. Len(list) \in Nat /\ ~(Len(list) > n)
    BY <1>1
  <2>2. KeepLast(list, n) = list
    BY <2>1 DEF KeepLast
  <2> QED BY <2>1, <2>2
<1>2. CASE Len(list) > n
  <2> DEFINE m == Len(list) - n + 1
             cut == SubSeq(list, m, Len(list))
  <2>1. KeepLast(list, n) = cut
    BY <1>2 DEF KeepLast
  <2>2. /\ Len(list) \in Nat /\ m \in Nat /\ m >= 1 /\ DOMAIN list = 1..Len(list)
        /\ Len(list) - m + 1 = n
    BY <1>2
  <2>3. /\ cut \in Seq(T) /\ Len(cut) = n
        /\ \A i \in 1..n : cut[i] = list[m + i - 1] /\ m + i - 1 \in 1..Len(list)
    BY <2>2
  <2>4. DOMAIN cut = 1..n
    BY <2>3
  <2> HIDE DEF cut
  <2>5. ToSet(cut) \subseteq ToSet(list)
    <3> SUFFICES ASSUME NEW x \in ToSet(cut) PROVE x \in ToSet(list)
      OBVIOUS
    <3>1. PICK i \in 1..n : x = cut[i]
      BY <2>4 DEF ToSet
    <3>2. x = list[m + i - 1] /\ m + i - 1 \in DOMAIN list
      BY <2>2, <2>3, <3>1
    <3> HIDE DEF m
    <3> QED BY <3>2 DEF ToSet
  <2>6. ASSUME Apart(list) PROVE Apart(cut)
    <3> SUFFICES ASSUME NEW i \in 1..n, NEW j \in 1..n, SameNews(cut[i], cut[j])
                 PROVE  i = j
      BY <2>4 DEF Apart
    <3>1. m + i - 1 = m + j - 1
      BY <2>2, <2>3, <2>6 DEF Apart
    <3> QED BY <2>2, <3>1
  <2> QED BY <1>2, <2>1, <2>3, <2>5, <2>6
<1> QED BY <1>1, <1>2

-----------------------------------------------------------------------------
(* What a payload holds.  W: the wallets of the vault; H: the transactions *)
(* whose arrival may wait, each with its wallet; C: those in a block; S:   *)
(* what was said.                                                          *)

NewsEntries == [wallet : Wallets, tx : Txs, stage : Stages,
                replaces : Txs \cup {NONE}, at : Nat]
RecordEntries == [wallet : Wallets, tx : Txs, stage : Stages,
                  replaces : Txs \cup {NONE}]
VanishedEntries == [wallet : Wallets, tx : Txs, told_as : Txs, missed : Nat]

WasSaid(S, w, f) == <<w, f, "Mempool">> \in S \/ <<w, f, "Confirmed">> \in S

\* What waits: an arrival names no other, a confirmation is of a transaction in
\* a block and names one that was said, and what is dropped was said to come.
NewsOK(e, H, C, S) ==
  /\ e.stage = "Mempool" => e.replaces = NONE /\ <<e.wallet, e.tx>> \in H
  /\ e.stage = "Confirmed" =>
       /\ <<e.wallet, e.tx>> \in C
       /\ e.replaces = NONE \/ WasSaid(S, e.wallet, e.replaces)
  /\ e.stage = "Dropped" =>
       /\ e.replaces = NONE /\ <<e.wallet, e.tx, "Mempool">> \in S
       /\ Net[e.wallet][e.tx] > 0

\* What is on record: an arrival was said, or takes the place of one that was
\* and moves the wallet the same way.
RecordOK(e, C, S) ==
  /\ e.stage = "Mempool" =>
       \/ e.replaces = NONE /\ <<e.wallet, e.tx, "Mempool">> \in S
       \/ /\ e.replaces # NONE /\ <<e.wallet, e.replaces, "Mempool">> \in S
          /\ Signum(Net[e.wallet][e.replaces]) = Signum(Net[e.wallet][e.tx])
  /\ e.stage = "Confirmed" =>
       /\ <<e.wallet, e.tx>> \in C
       /\ e.replaces = NONE \/ WasSaid(S, e.wallet, e.replaces)

VanishedOK(e, S) ==
  <<e.wallet, e.told_as, "Mempool">> \in S /\ Net[e.wallet][e.told_as] > 0

\* No arrival waits beside the confirmation of the same transaction.
ArrivalsStand(list) ==
  \A e, f \in ToSet(list) :
    e.stage = "Mempool" /\ f.stage = "Confirmed" => e.wallet # f.wallet \/ e.tx # f.tx

UnclaimedOK(list, W, H, C, S) ==
  /\ list \in Seq(NewsEntries) /\ Len(list) <= UNCLAIMED_MAX /\ Apart(list)
  /\ ArrivalsStand(list)
  /\ \A e \in ToSet(list) : e.wallet \in W /\ NewsOK(e, H, C, S)
AnnouncedOK(list, W, C, S) ==
  /\ list \in Seq(RecordEntries)
  /\ \A e \in ToSet(list) : e.wallet \in W /\ RecordOK(e, C, S)
VanishingOK(list, W, S) ==
  /\ list \in Seq(VanishedEntries)
  /\ \A e \in ToSet(list) : e.wallet \in W /\ VanishedOK(e, S)

\* What was said of a wallet is on record, unless the record is full.
Recorded(list, W, S) ==
  \A w \in W : \A t, stage : <<w, t, stage>> \in S => As(list, w, t, stage) # {}
OnRecord(list, W, S) == Len(list) >= ANNOUNCED_MAX \/ Recorded(list, W, S)

PayloadOK(p, W, H, C, S) ==
  /\ p \in Payload
  /\ UnclaimedOK(p.unclaimed, W, H, C, S)
  /\ AnnouncedOK(p.announced, W, C, S)
  /\ VanishingOK(p.vanishing, W, S)
  /\ OnRecord(p.announced, W, S)

-----------------------------------------------------------------------------
(* The states.                                                             *)

SaidOf(list) == {<<list[i].wallet, list[i].tx, list[i].stage>> : i \in DOMAIN list}
SaidNews == SaidOf(said)
HeldIn(held) == {x \in Wallets \X Txs : held[x[1]][x[2]] # "absent"}
InBlocks(held) == {x \in Wallets \X Txs : held[x[1]][x[2]] = "confirmed"}

StateGood(state, S) ==
  /\ state \in States
  /\ PayloadOK(state.news, state.wallets, HeldIn(state.held), InBlocks(state.held), S)
  /\ Len(state.news.announced) + Len(state.news.unclaimed) <= ANNOUNCED_MAX
  /\ Recorded(state.news.announced, state.wallets, S)
  /\ \A w \in Wallets : ~state.synced[w] => \A t \in Txs : state.held[w][t] = "absent"

\* What was said before the i-th of a list, and a list that says it right.
Before(list, i, w, t, stage) ==
  \E j \in 1..(i - 1) : list[j].wallet = w /\ list[j].tx = t /\ list[j].stage = stage
SaidRight(list) ==
  \A i \in DOMAIN list :
    /\ ~Before(list, i, list[i].wallet, list[i].tx, list[i].stage)
    /\ list[i].stage = "Mempool" => ~Before(list, i, list[i].wallet, list[i].tx, "Confirmed")
    /\ list[i].stage = "Dropped" =>
         /\ Before(list, i, list[i].wallet, list[i].tx, "Mempool")
         /\ Net[list[i].wallet][list[i].tx] > 0
    /\ list[i].replaces # NONE =>
         \E stage \in {"Mempool", "Confirmed"} :
           Before(list, i, list[i].wallet, list[i].replaces, stage)

NewsIInv == TypeOK /\ StateGood(mem, SaidNews) /\ StateGood(disk, SaidNews) /\ SaidRight(said)

-----------------------------------------------------------------------------
(* Changing a payload, one field at a time.                                *)

\* What was OK stays so when more is held, in a block or said.
LEMMA NewsOKMore ==
  ASSUME NEW e, NEW H, NEW C, NEW S, NEW H1, NEW C1, NEW S1, NewsOK(e, H, C, S),
         <<e.wallet, e.tx>> \in H => <<e.wallet, e.tx>> \in H1,
         <<e.wallet, e.tx>> \in C => <<e.wallet, e.tx>> \in C1, S \subseteq S1
  PROVE  NewsOK(e, H1, C1, S1)
BY DEF NewsOK, WasSaid

LEMMA RecordOKMore ==
  ASSUME NEW e, NEW C, NEW S, NEW C1, NEW S1, RecordOK(e, C, S),
         <<e.wallet, e.tx>> \in C => <<e.wallet, e.tx>> \in C1, S \subseteq S1
  PROVE  RecordOK(e, C1, S1)
BY DEF RecordOK, WasSaid

LEMMA MoreHeld ==
  ASSUME NEW p, NEW W, NEW H, NEW C, NEW S, PayloadOK(p, W, H, C, S),
         NEW H1, NEW C1, H \subseteq H1, C \subseteq C1
  PROVE  PayloadOK(p, W, H1, C1, S)
<1>1. UnclaimedOK(p.unclaimed, W, H1, C1, S)
  <2>1. UnclaimedOK(p.unclaimed, W, H, C, S)
    BY DEF PayloadOK
  <2>2. ASSUME NEW e \in ToSet(p.unclaimed) PROVE NewsOK(e, H1, C1, S)
    <3>1. NewsOK(e, H, C, S)
      BY <2>1 DEF UnclaimedOK
    <3> QED BY <3>1 DEF NewsOK, WasSaid
  <2> QED BY <2>1, <2>2 DEF UnclaimedOK
<1>2. AnnouncedOK(p.announced, W, C1, S)
  BY RecordOKMore DEF PayloadOK, AnnouncedOK
<1> QED BY <1>1, <1>2 DEF PayloadOK

\* A payload with another list.
LEMMA WithUnclaimed ==
  ASSUME NEW p \in Payload, NEW list \in Seq(NewsEntries)
  PROVE  LET q == [p EXCEPT !.unclaimed = list] IN
         /\ q \in Payload /\ q.unclaimed = list /\ q.announced = p.announced
         /\ q.vanishing = p.vanishing
BY DEF Payload, NewsEntries

LEMMA WithVanishing ==
  ASSUME NEW p \in Payload, NEW list \in Seq(VanishedEntries)
  PROVE  LET q == [p EXCEPT !.vanishing = list] IN
         /\ q \in Payload /\ q.vanishing = list /\ q.announced = p.announced
         /\ q.unclaimed = p.unclaimed
BY DEF Payload, VanishedEntries

LEMMA WithAnnounced ==
  ASSUME NEW p \in Payload, NEW list \in Seq(RecordEntries)
  PROVE  LET q == [p EXCEPT !.announced = list] IN
         /\ q \in Payload /\ q.announced = list /\ q.unclaimed = p.unclaimed
         /\ q.vanishing = p.vanishing
BY DEF Payload, RecordEntries

\* What waits may be cut down, and its loss noted.
LEMMA ForgetIs ==
  ASSUME NEW p \in Payload, NEW kept \in Seq(NewsEntries)
  PROVE  /\ Forget(p, kept) \in Payload /\ Forget(p, kept).unclaimed = kept
         /\ Forget(p, kept).announced = p.announced
         /\ Forget(p, kept).vanishing = p.vanishing
<1> DEFINE lost == {<<e.wallet, e.tx, e.stage>> : e \in ToSet(p.unclaimed) \ ToSet(kept)}
<1>1. /\ p.unclaimed \in Seq(NewsEntries) /\ p.announced \in Seq(RecordEntries)
      /\ p.vanishing \in Seq(VanishedEntries)
      /\ p.forgotten \in SUBSET (Wallets \X Txs \X Stages)
  BY DEF Payload, NewsEntries, RecordEntries, VanishedEntries
<1>2. ASSUME NEW e \in ToSet(p.unclaimed) PROVE e \in NewsEntries
  BY <1>1 DEF ToSet
<1>3. lost \subseteq Wallets \X Txs \X Stages
  BY <1>2 DEF NewsEntries
<1> HIDE DEF lost
<1>4. Forget(p, kept) = [p EXCEPT !.unclaimed = kept, !.forgotten = @ \cup lost]
  BY DEF Forget, lost
<1> QED BY <1>1, <1>3, <1>4 DEF Payload, NewsEntries, RecordEntries, VanishedEntries

\* A payload that differs in what waits.
LEMMA NewUnclaimed ==
  ASSUME NEW p, NEW W, NEW H, NEW C, NEW S, PayloadOK(p, W, H, C, S), NEW H1,
         NEW q \in Payload, q.announced = p.announced, q.vanishing = p.vanishing,
         UnclaimedOK(q.unclaimed, W, H1, C, S)
  PROVE  PayloadOK(q, W, H1, C, S)
BY DEF PayloadOK

\* Part of a list where arrivals stand.
LEMMA StandLess ==
  ASSUME NEW list, NEW less, ArrivalsStand(list), ToSet(less) \subseteq ToSet(list)
  PROVE  ArrivalsStand(less)
BY DEF ArrivalsStand

\* Part of what waits.
LEMMA SomeUnclaimed ==
  ASSUME NEW list, NEW W, NEW H, NEW C, NEW S, UnclaimedOK(list, W, H, C, S),
         NEW some, NEW H1,
         \A e \in ToSet(list) \cap some :
            e.stage = "Mempool" /\ <<e.wallet, e.tx>> \in H => <<e.wallet, e.tx>> \in H1
  PROVE  UnclaimedOK(Only(list, some), W, H1, C, S)
<1> DEFINE less == Only(list, some)
<1>1. /\ less \in Seq(NewsEntries) /\ Len(less) \in Nat /\ Len(less) <= Len(list)
      /\ ToSet(less) = ToSet(list) \cap some /\ Apart(less)
  BY OnlyIs DEF UnclaimedOK
<1>2. Len(list) \in Nat /\ UNCLAIMED_MAX \in Nat /\ Len(list) <= UNCLAIMED_MAX
  BY NewsAssumption DEF UnclaimedOK
<1>3. Len(less) <= UNCLAIMED_MAX
  BY <1>1, <1>2
<1>4. ASSUME NEW e \in ToSet(less) PROVE e.wallet \in W /\ NewsOK(e, H1, C, S)
  BY <1>1 DEF UnclaimedOK, NewsOK
<1>5. ArrivalsStand(less)
  BY <1>1, StandLess DEF UnclaimedOK
<1> HIDE DEF less
<1>6. UnclaimedOK(less, W, H1, C, S)
  BY <1>1, <1>3, <1>4, <1>5 DEF UnclaimedOK
<1> QED BY <1>6 DEF less

\* What expires is forgotten.
LEMMA ExpireKeeps ==
  ASSUME NEW p, NEW W, NEW H, NEW C, NEW S, PayloadOK(p, W, H, C, S), NEW n
  PROVE  /\ PayloadOK(Expire(p, n), W, H, C, S)
         /\ Expire(p, n).announced = p.announced
         /\ Expire(p, n).vanishing = p.vanishing
         /\ Len(Expire(p, n).unclaimed) <= Len(p.unclaimed)
<1> DEFINE some == {e \in ToSet(p.unclaimed) : e.at + UNCLAIMED_FOR >= n}
           less == Only(p.unclaimed, some)
<1>1. p \in Payload /\ p.unclaimed \in Seq(NewsEntries) /\ UnclaimedOK(p.unclaimed, W, H, C, S)
  BY DEF PayloadOK, UnclaimedOK
<1>2. Expire(p, n) = Forget(p, less)
  BY DEF Expire
<1> HIDE DEF some
<1>3. UnclaimedOK(less, W, H, C, S)
  BY <1>1, SomeUnclaimed
<1>4. less \in Seq(NewsEntries) /\ Len(less) <= Len(p.unclaimed)
  BY <1>1, OnlyIs
<1> HIDE DEF less
<1>5. /\ Forget(p, less) \in Payload /\ Forget(p, less).unclaimed = less
      /\ Forget(p, less).announced = p.announced
      /\ Forget(p, less).vanishing = p.vanishing
  BY <1>1, <1>4, ForgetIs
<1>6. PayloadOK(Forget(p, less), W, H, C, S)
  BY <1>3, <1>5, NewUnclaimed
<1> QED BY <1>2, <1>4, <1>5, <1>6

\* An arrival taken back does not wait any more.
LEMMA UnsayKeeps ==
  ASSUME NEW p, NEW W, NEW H, NEW C, NEW S, PayloadOK(p, W, H, C, S),
         NEW w, NEW t
  PROVE  /\ PayloadOK(UnsayArrival(p, w, t), W, H \ {<<w, t>>}, C, S)
         /\ UnsayArrival(p, w, t).announced = p.announced
         /\ UnsayArrival(p, w, t).vanishing = p.vanishing
         /\ ToSet(UnsayArrival(p, w, t).unclaimed) \subseteq
              ToSet(p.unclaimed) \ As(p.unclaimed, w, t, "Mempool")
<1> DEFINE some == ToSet(p.unclaimed) \ As(p.unclaimed, w, t, "Mempool")
           less == Only(p.unclaimed, some)
           q == UnsayArrival(p, w, t)
           H1 == H \ {<<w, t>>}
<1>1. p \in Payload /\ p.unclaimed \in Seq(NewsEntries) /\ UnclaimedOK(p.unclaimed, W, H, C, S)
  BY DEF PayloadOK, UnclaimedOK
<1>2. q = [p EXCEPT !.unclaimed = less]
  BY DEF UnsayArrival
<1>3. UnclaimedOK(less, W, H1, C, S)
  <2>1. ASSUME NEW e \in ToSet(p.unclaimed) \cap some,
               e.stage = "Mempool" /\ <<e.wallet, e.tx>> \in H
        PROVE  <<e.wallet, e.tx>> \in H1
    BY <2>1 DEF As
  <2> HIDE DEF some, H1
  <2> QED BY <1>1, <2>1, SomeUnclaimed
<1>4. less \in Seq(NewsEntries) /\ ToSet(less) \subseteq some
  BY <1>1, OnlyIs
<1> HIDE DEF less, H1, q
<1>5. q \in Payload /\ q.announced = p.announced /\ q.vanishing = p.vanishing /\ q.unclaimed = less
  BY <1>1, <1>2, <1>4 DEF Payload, NewsEntries
<1>6. PayloadOK(q, W, H1, C, S)
  BY <1>3, <1>5, NewUnclaimed
<1> QED BY <1>4, <1>5, <1>6 DEF q, H1

\* One more piece of news, of which nothing was said and none waits.
LEMMA PushKeeps ==
  ASSUME NEW p, NEW W, NEW H, NEW C, NEW S, PayloadOK(p, W, H, C, S),
         NEW w \in W, w \in Wallets, NEW t \in Txs, NEW stage \in Stages,
         NEW replaces \in Txs \cup {NONE}, NEW n \in Nat,
         NewsOK([wallet |-> w, tx |-> t, stage |-> stage, replaces |-> replaces, at |-> n], H, C, S)
  PROVE  /\ PayloadOK(Push(p, w, t, stage, replaces, n), W, H, C, S)
         /\ Push(p, w, t, stage, replaces, n).announced = p.announced
         /\ Push(p, w, t, stage, replaces, n).vanishing = p.vanishing
<1> DEFINE i == Find(p.unclaimed, As(p.unclaimed, w, t, "Mempool"))
           carried == IF stage = "Confirmed" /\ i # 0 /\ replaces = NONE
                      THEN p.unclaimed[i].replaces ELSE replaces
           q == IF stage = "Confirmed" THEN UnsayArrival(p, w, t) ELSE p
           x == [wallet |-> w, tx |-> t, stage |-> stage, replaces |-> carried, at |-> n]
           longer == [q EXCEPT !.unclaimed = Append(@, x)]
           kept == KeepLast(longer.unclaimed, UNCLAIMED_MAX)
           heard == \/ Told(p, w, t, stage)
                    \/ WaitingAs(p, w, t, stage)
                    \/ stage = "Mempool" /\ WaitingAs(p, w, t, "Confirmed")
<1>1. CASE heard
  <2>1. Push(p, w, t, stage, replaces, n) = p
    BY <1>1 DEF Push
  <2> QED BY <2>1
<1>2. CASE ~heard
  <2>1. Push(p, w, t, stage, replaces, n) = Forget(longer, kept)
    BY <1>2 DEF Push
  <2>2. /\ p \in Payload /\ p.unclaimed \in Seq(NewsEntries)
        /\ UnclaimedOK(p.unclaimed, W, H, C, S)
    BY DEF PayloadOK, UnclaimedOK
  <2>3. carried = replaces
    <3> SUFFICES ASSUME i # 0, replaces = NONE PROVE p.unclaimed[i].replaces = NONE
      OBVIOUS
    <3>1. i \in DOMAIN p.unclaimed /\ p.unclaimed[i] \in As(p.unclaimed, w, t, "Mempool")
      BY <2>2, FindIs
    <3> QED BY <2>2, <3>1 DEF As, UnclaimedOK, NewsOK
  <2>4. x \in NewsEntries /\ NewsOK(x, H, C, S) /\ x.wallet = w /\ x.tx = t /\ x.stage = stage
    <3> HIDE DEF carried
    <3> QED BY <2>3 DEF NewsEntries
  <2>5. /\ PayloadOK(q, W, H, C, S) /\ q.announced = p.announced /\ q.vanishing = p.vanishing
        /\ ToSet(q.unclaimed) \subseteq ToSet(p.unclaimed)
        /\ stage = "Confirmed" =>
             \A e \in ToSet(q.unclaimed) : e \notin As(p.unclaimed, w, t, "Mempool")
    <3>1. CASE stage = "Confirmed"
      <4>1. /\ PayloadOK(UnsayArrival(p, w, t), W, H \ {<<w, t>>}, C, S)
            /\ UnsayArrival(p, w, t).announced = p.announced
            /\ UnsayArrival(p, w, t).vanishing = p.vanishing
            /\ ToSet(UnsayArrival(p, w, t).unclaimed) \subseteq
                 ToSet(p.unclaimed) \ As(p.unclaimed, w, t, "Mempool")
        BY UnsayKeeps
      <4>2. PayloadOK(UnsayArrival(p, w, t), W, H, C, S)
        BY <4>1, MoreHeld
      <4> QED BY <3>1, <4>1, <4>2
    <3>2. CASE stage # "Confirmed"
      BY <3>2
    <3> QED BY <3>1, <3>2
  <2> HIDE DEF q, x, i
  <2>6. /\ q \in Payload /\ q.unclaimed \in Seq(NewsEntries) /\ Apart(q.unclaimed)
        /\ ArrivalsStand(q.unclaimed)
        /\ \A e \in ToSet(q.unclaimed) : e.wallet \in W /\ NewsOK(e, H, C, S)
    BY <2>5 DEF PayloadOK, UnclaimedOK
  <2>7. ASSUME NEW e \in ToSet(q.unclaimed) PROVE ~SameNews(e, x)
    BY <1>2, <2>4, <2>5 DEF SameNews, WaitingAs, As
  <2>8. /\ longer \in Payload /\ longer.unclaimed = Append(q.unclaimed, x)
        /\ longer.announced = p.announced /\ longer.vanishing = p.vanishing
    <3>1. Append(q.unclaimed, x) \in Seq(NewsEntries)
      BY <2>4, <2>6
    <3>2. longer = [q EXCEPT !.unclaimed = Append(q.unclaimed, x)]
      BY DEF longer
    <3> HIDE DEF longer
    <3> QED BY <2>5, <2>6, <3>1, <3>2, WithUnclaimed
  <2> HIDE DEF longer
  <2>9. /\ longer.unclaimed \in Seq(NewsEntries) /\ Apart(longer.unclaimed)
        /\ ToSet(longer.unclaimed) = ToSet(q.unclaimed) \cup {x}
    BY <2>4, <2>6, <2>7, <2>8, AppendIs
  <2>10. /\ kept \in Seq(NewsEntries) /\ Len(kept) <= UNCLAIMED_MAX /\ Apart(kept)
         /\ ToSet(kept) \subseteq ToSet(longer.unclaimed)
    <3>1. UNCLAIMED_MAX \in Nat
      BY NewsAssumption
    <3>2. Len(longer.unclaimed) \in Nat
      BY <2>9
    <3>3. /\ kept \in Seq(NewsEntries) /\ Len(kept) \in Nat
          /\ Len(longer.unclaimed) <= UNCLAIMED_MAX => kept = longer.unclaimed
          /\ Len(longer.unclaimed) > UNCLAIMED_MAX => Len(kept) = UNCLAIMED_MAX
          /\ ToSet(kept) \subseteq ToSet(longer.unclaimed) /\ Apart(kept)
      BY <2>9, <3>1, KeepLastIs
    <3> HIDE DEF kept
    <3>4. Len(kept) <= UNCLAIMED_MAX
      BY <3>1, <3>2, <3>3
    <3> QED BY <3>3, <3>4
  <2> HIDE DEF kept
  <2>11. UnclaimedOK(kept, W, H, C, S)
    <3>1. ASSUME NEW e \in ToSet(q.unclaimed), e.wallet = w, e.tx = t
          PROVE  /\ ~(e.stage = "Mempool" /\ stage = "Confirmed")
                 /\ ~(e.stage = "Confirmed" /\ stage = "Mempool")
      BY <1>2, <2>5, <3>1 DEF WaitingAs, As
    <3>2. ArrivalsStand(longer.unclaimed)
      BY <2>4, <2>6, <2>9, <3>1 DEF ArrivalsStand
    <3>3. ArrivalsStand(kept)
      BY <2>10, <3>2, StandLess
    <3> QED BY <2>4, <2>6, <2>9, <2>10, <3>3 DEF UnclaimedOK
  <2>12. /\ Forget(longer, kept) \in Payload /\ Forget(longer, kept).unclaimed = kept
         /\ Forget(longer, kept).announced = p.announced
         /\ Forget(longer, kept).vanishing = p.vanishing
    BY <2>8, <2>10, ForgetIs
  <2>13. PayloadOK(Forget(longer, kept), W, H, C, S)
    BY <2>11, <2>12, NewUnclaimed
  <2> QED BY <2>1, <2>12, <2>13
<1> QED BY <1>1, <1>2

\* The txid a payment was announced under was said.
LEMMA AnnouncedUnderIs ==
  ASSUME NEW p, NEW W, NEW H, NEW C, NEW S, PayloadOK(p, W, H, C, S),
         NEW w \in Wallets, NEW t \in Txs
  PROVE  LET u == AnnouncedUnder(p, w, t) IN
         /\ u \in Txs \cup {NONE}
         /\ u # t /\ u # NONE => WasSaid(S, w, u)
         /\ u # NONE /\ (<<w, t>> \notin C \/ ~AnnouncedAs(p, w, t, "Confirmed")) =>
              <<w, u, "Mempool">> \in S /\ Signum(Net[w][u]) = Signum(Net[w][t])
         /\ AnnouncedAs(p, w, t, "Mempool") => u # NONE
<1> DEFINE u == AnnouncedUnder(p, w, t)
           some == As(p.announced, w, t, "Mempool") \cup As(p.announced, w, t, "Confirmed")
           i == Find(p.announced, some)
<1>1. p.announced \in Seq(RecordEntries) /\ \A e \in ToSet(p.announced) : RecordOK(e, C, S)
  BY DEF PayloadOK, AnnouncedOK
<1>2. u = IF i = 0 THEN NONE
          ELSE IF p.announced[i].replaces = NONE THEN t ELSE p.announced[i].replaces
  BY DEF AnnouncedUnder
<1>3. NONE \notin Txs
  BY NewsAssumption
<1>4. \/ i = 0 /\ \A e \in ToSet(p.announced) : e \notin some
      \/ i \in DOMAIN p.announced /\ i # 0 /\ p.announced[i] \in some
  BY <1>1, FindIs
<1>5. CASE i = 0
  <2>1. u = NONE
    BY <1>2, <1>5
  <2>2. ~AnnouncedAs(p, w, t, "Mempool")
    BY <1>1, <1>4, <1>5 DEF AnnouncedAs, As
  <2> QED BY <2>1, <2>2
<1>6. CASE i # 0
  <2> DEFINE e == p.announced[i]
  <2>1. /\ e \in RecordEntries /\ RecordOK(e, C, S) /\ e.wallet = w /\ e.tx = t
        /\ e \in ToSet(p.announced) /\ e \in some
        /\ e.stage = "Mempool" \/ e.stage = "Confirmed"
    <3>1. i \in DOMAIN p.announced /\ e \in some
      BY <1>4, <1>6
    <3>2. e \in ToSet(p.announced)
      BY <3>1 DEF ToSet
    <3>3. e \in RecordEntries
      <4>1. p.announced \in Seq(RecordEntries) /\ i \in DOMAIN p.announced
        BY <1>1, <3>1
      <4> HIDE DEF i
      <4> QED BY <4>1
    <3> HIDE DEF e
    <3> QED BY <1>1, <3>1, <3>2, <3>3 DEF As
  <2>2. u = IF e.replaces = NONE THEN t ELSE e.replaces
    BY <1>2, <1>6
  <2> HIDE DEF i, e
  <2>3. u \in Txs /\ u # NONE
    BY <1>3, <2>1, <2>2 DEF RecordEntries
  <2>4. u # t => WasSaid(S, w, u)
    BY <2>1, <2>2 DEF RecordOK, WasSaid
  <2>5. ASSUME <<w, t>> \notin C \/ ~AnnouncedAs(p, w, t, "Confirmed")
        PROVE  <<w, u, "Mempool">> \in S /\ Signum(Net[w][u]) = Signum(Net[w][t])
    <3>1. e.stage = "Mempool"
      BY <2>1, <2>5 DEF RecordOK, AnnouncedAs, As
    <3> QED BY <2>1, <2>2, <3>1 DEF RecordOK
  <2> HIDE DEF u
  <2>6. /\ u \in Txs \cup {NONE}
        /\ u # t /\ u # NONE => WasSaid(S, w, u)
        /\ u # NONE /\ (<<w, t>> \notin C \/ ~AnnouncedAs(p, w, t, "Confirmed")) =>
             <<w, u, "Mempool">> \in S /\ Signum(Net[w][u]) = Signum(Net[w][t])
        /\ AnnouncedAs(p, w, t, "Mempool") => u # NONE
    BY <2>3, <2>4, <2>5
  <2> QED BY <2>6 DEF u
<1> QED BY <1>5, <1>6

\* A list put at the end of another.
LEMMA JoinedIs ==
  ASSUME NEW T, NEW list \in Seq(T), NEW more \in Seq(T)
  PROVE  /\ list \o more \in Seq(T) /\ Len(list \o more) = Len(list) + Len(more)
         /\ ToSet(list \o more) = ToSet(list) \cup ToSet(more)
<1> DEFINE m == Len(list)
           n == Len(more)
           both == list \o more
<1>1. /\ both \in Seq(T) /\ m \in Nat /\ n \in Nat /\ Len(both) = m + n
      /\ DOMAIN list = 1..m /\ DOMAIN more = 1..n /\ DOMAIN both = 1..(m + n)
      /\ \A k \in 1..(m + n) : both[k] = IF k <= m THEN list[k] ELSE more[k - m]
  OBVIOUS
<1> HIDE DEF m, n, both
<1>2. ASSUME NEW y \in ToSet(both) PROVE y \in ToSet(list) \cup ToSet(more)
  <2>1. PICK k \in 1..(m + n) : y = both[k]
    BY <1>1 DEF ToSet
  <2>2. CASE k <= m
    <3>1. k \in 1..m /\ y = list[k]
      BY <1>1, <2>1, <2>2
    <3> QED BY <1>1, <3>1 DEF ToSet
  <2>3. CASE ~(k <= m)
    <3>1. k - m \in 1..n /\ y = more[k - m]
      BY <1>1, <2>1, <2>3
    <3> QED BY <1>1, <3>1 DEF ToSet
  <2> QED BY <2>2, <2>3
<1>3. ASSUME NEW y \in ToSet(list) PROVE y \in ToSet(both)
  <2>1. PICK k \in 1..m : y = list[k]
    BY <1>1 DEF ToSet
  <2>2. k \in 1..(m + n) /\ both[k] = y
    BY <1>1, <2>1
  <2> QED BY <1>1, <2>2 DEF ToSet
<1>4. ASSUME NEW y \in ToSet(more) PROVE y \in ToSet(both)
  <2>1. PICK k \in 1..n : y = more[k]
    BY <1>1 DEF ToSet
  <2>2. m + k \in 1..(m + n) /\ ~(m + k <= m) /\ (m + k) - m = k
    BY <1>1
  <2>3. both[m + k] = y
    BY <1>1, <2>1, <2>2
  <2> QED BY <1>1, <2>2, <2>3 DEF ToSet
<1>5. ToSet(both) = ToSet(list) \cup ToSet(more)
  BY <1>2, <1>3, <1>4
<1> QED BY <1>1, <1>5 DEF m, n, both

\* More on record.
LEMMA RememberKeeps ==
  ASSUME NEW p, NEW W, NEW H, NEW C, NEW S, PayloadOK(p, W, H, C, S),
         NEW told \in Seq(RecordEntries),
         \A e \in ToSet(told) : e.wallet \in W /\ RecordOK(e, C, S)
  PROVE  /\ PayloadOK(Remember(p, told), W, H, C, S)
         /\ Remember(p, told).unclaimed = p.unclaimed
         /\ Remember(p, told).vanishing = p.vanishing
<1> DEFINE both == p.announced \o told
           kept == KeepLast(both, ANNOUNCED_MAX)
           q == Remember(p, told)
<1>1. /\ p \in Payload /\ p.announced \in Seq(RecordEntries)
      /\ AnnouncedOK(p.announced, W, C, S) /\ OnRecord(p.announced, W, S)
  BY DEF PayloadOK, AnnouncedOK
<1>2. ANNOUNCED_MAX \in Nat
  BY NewsAssumption
<1>3. /\ both \in Seq(RecordEntries) /\ Len(both) = Len(p.announced) + Len(told)
      /\ ToSet(both) = ToSet(p.announced) \cup ToSet(told)
  BY <1>1, JoinedIs
<1> HIDE DEF both
<1>4. /\ kept \in Seq(RecordEntries) /\ Len(kept) \in Nat
      /\ Len(both) <= ANNOUNCED_MAX => kept = both
      /\ Len(both) > ANNOUNCED_MAX => Len(kept) = ANNOUNCED_MAX
      /\ ToSet(kept) \subseteq ToSet(both)
  BY <1>2, <1>3, KeepLastIs
<1>5. Len(both) \in Nat /\ Len(p.announced) \in Nat /\ Len(told) \in Nat
  BY <1>1, <1>3
<1>6. q = [p EXCEPT !.announced = kept]
  BY DEF Remember, both
<1> HIDE DEF kept, q
<1>7. /\ q \in Payload /\ q.announced = kept /\ q.unclaimed = p.unclaimed
      /\ q.vanishing = p.vanishing
  BY <1>1, <1>4, <1>6, WithAnnounced
<1>8. AnnouncedOK(kept, W, C, S)
  BY <1>1, <1>3, <1>4 DEF AnnouncedOK
<1>9. OnRecord(kept, W, S)
  <2>1. CASE Len(both) > ANNOUNCED_MAX
    BY <1>2, <1>4, <2>1 DEF OnRecord
  <2>2. CASE Len(both) <= ANNOUNCED_MAX
    <3>1. kept = both
      BY <1>4, <2>2
    <3>2. CASE Len(p.announced) >= ANNOUNCED_MAX
      BY <1>2, <1>3, <1>5, <3>1, <3>2 DEF OnRecord
    <3>3. CASE Recorded(p.announced, W, S)
      <4>1. Recorded(both, W, S)
        BY <1>3, <3>3 DEF Recorded, As
      <4> QED BY <3>1, <4>1 DEF OnRecord
    <3> QED BY <1>1, <3>2, <3>3 DEF OnRecord
  <2> QED BY <1>2, <1>5, <2>1, <2>2
<1>10. PayloadOK(q, W, H, C, S)
  BY <1>7, <1>8, <1>9 DEF PayloadOK
<1> QED BY <1>7, <1>10 DEF q

\* t takes o's place, in what waits or on record.
LEMMA ReplaceKeeps ==
  ASSUME NEW p, NEW W, NEW H, NEW C, NEW S, PayloadOK(p, W, H, C, S),
         NEW w \in W, w \in Wallets, NEW o \in Txs, NEW t \in Txs,
         PendingSaid(p, w, o), <<w, o>> \notin C, <<w, t>> \notin H, <<w, t>> \notin C,
         Signum(Net[w][t]) = Signum(Net[w][o])
  PROVE  PayloadOK(Replace(p, w, o, t), W, H \cup {<<w, t>>}, C, S)
<1> DEFINE list == p.unclaimed
           i == Find(list, As(list, w, o, "Mempool"))
           H1 == H \cup {<<w, t>>}
<1>1. p \in Payload /\ list \in Seq(NewsEntries) /\ UnclaimedOK(list, W, H, C, S)
  BY DEF PayloadOK, UnclaimedOK
<1>2. \/ i = 0 /\ \A e \in ToSet(list) : e \notin As(list, w, o, "Mempool")
      \/ i \in DOMAIN list /\ i # 0 /\ list[i] \in As(list, w, o, "Mempool")
  BY <1>1, FindIs
<1>3. PayloadOK(p, W, H1, C, S)
  BY MoreHeld
<1>4. CASE i # 0
  <2> DEFINE more == [list EXCEPT ![i].tx = t]
             q == Replace(p, w, o, t)
  <2>1. q = [p EXCEPT !.unclaimed[i].tx = t]
    BY <1>4 DEF Replace
  <2>2. q = [p EXCEPT !.unclaimed = more]
    BY <1>1, <2>1 DEF Payload
  <2>3. /\ i \in DOMAIN list /\ list[i] \in As(list, w, o, "Mempool")
    BY <1>2, <1>4
  <2> HIDE DEF i
  <2>4. /\ DOMAIN list = 1..Len(list) /\ Len(list) \in Nat
        /\ \A k \in DOMAIN list : list[k] \in NewsEntries /\ list[k] \in ToSet(list)
    BY <1>1 DEF ToSet
  <2>5. /\ more \in Seq(NewsEntries) /\ Len(more) = Len(list) /\ DOMAIN more = DOMAIN list
        /\ \A k \in DOMAIN list : k # i => more[k] = list[k]
        /\ more[i] = [list[i] EXCEPT !.tx = t]
    <3>1. [list[i] EXCEPT !.tx = t] \in NewsEntries
      BY <2>3, <2>4 DEF NewsEntries
    <3>2. more = [list EXCEPT ![i] = [list[i] EXCEPT !.tx = t]]
      BY <2>3
    <3> HIDE DEF more
    <3> QED BY <1>1, <2>3, <2>4, <3>1, <3>2
  <2>6. /\ more[i].wallet = w /\ more[i].tx = t /\ more[i].stage = "Mempool"
        /\ more[i].replaces = NONE
    <3>1. list[i] \in NewsEntries /\ list[i].wallet = w /\ list[i].stage = "Mempool"
      BY <2>3, <2>4 DEF As
    <3>2. list[i].replaces = NONE
      BY <1>1, <2>3, <2>4, <3>1 DEF UnclaimedOK, NewsOK
    <3> HIDE DEF more
    <3> QED BY <2>5, <3>1, <3>2 DEF NewsEntries
  <2> HIDE DEF more, q
  <2>7. ASSUME NEW k \in DOMAIN list, k # i PROVE ~SameNews(list[k], more[i])
    <3>1. NewsOK(list[k], H, C, S)
      BY <1>1, <2>4 DEF UnclaimedOK
    <3> QED BY <2>6, <3>1 DEF NewsOK, SameNews
  <2>8. Apart(more)
    <3> SUFFICES ASSUME NEW a \in DOMAIN list, NEW b \in DOMAIN list, SameNews(more[a], more[b])
                 PROVE  a = b
      BY <2>5 DEF Apart
    <3>1. CASE a = i /\ b # i
      BY <2>5, <2>7, <3>1 DEF SameNews
    <3>2. CASE a # i /\ b = i
      BY <2>5, <2>7, <3>2 DEF SameNews
    <3>3. CASE a # i /\ b # i
      BY <1>1, <2>5, <3>3 DEF UnclaimedOK, Apart
    <3> QED BY <3>1, <3>2, <3>3
  <2>9. ASSUME NEW e \in ToSet(more) PROVE e.wallet \in W /\ NewsOK(e, H1, C, S)
    <3>1. PICK k \in DOMAIN list : e = more[k]
      BY <2>5 DEF ToSet
    <3>2. CASE k = i
      BY <2>6, <3>1, <3>2 DEF NewsOK
    <3>3. CASE k # i
      <4>1. e = list[k] /\ e.wallet \in W /\ NewsOK(e, H, C, S)
        BY <1>1, <2>4, <2>5, <3>1, <3>3 DEF UnclaimedOK
      <4> QED BY <4>1 DEF NewsOK
    <3> QED BY <3>2, <3>3
  <2>10. UnclaimedOK(more, W, H1, C, S)
    <3>1. ASSUME NEW e \in ToSet(more) PROVE e = more[i] \/ e \in ToSet(list)
      <4>1. PICK k \in DOMAIN list : e = more[k]
        BY <2>5 DEF ToSet
      <4> QED BY <2>4, <2>5, <4>1
    <3>2. ASSUME NEW f \in ToSet(list), f.stage = "Confirmed" PROVE f.wallet # w \/ f.tx # t
      BY <1>1, <3>2 DEF UnclaimedOK, NewsOK
    <3>3. ArrivalsStand(more)
      BY <1>1, <2>6, <3>1, <3>2 DEF ArrivalsStand, UnclaimedOK
    <3> QED BY <1>1, <2>5, <2>8, <2>9, <3>3 DEF UnclaimedOK
  <2> HIDE DEF list, H1
  <2>11. /\ q \in Payload /\ q.unclaimed = more /\ q.announced = p.announced
         /\ q.vanishing = p.vanishing
    BY <1>1, <2>2, <2>5, WithUnclaimed
  <2>12. PayloadOK(q, W, H1, C, S)
    BY <1>3, <2>10, <2>11, NewUnclaimed
  <2> QED BY <2>12 DEF q, H1
<1>5. CASE i = 0
  <2> DEFINE u == AnnouncedUnder(p, w, o)
             e == [wallet |-> w, tx |-> t, stage |-> "Mempool", replaces |-> u]
  <2>1. Replace(p, w, o, t) = Remember(p, <<e>>)
    BY <1>5 DEF Replace
  <2>2. ~WaitingAs(p, w, o, "Mempool")
    BY <1>2, <1>5 DEF WaitingAs, As
  <2>3. AnnouncedAs(p, w, o, "Mempool")
    BY <2>2 DEF PendingSaid
  <2>4. /\ u \in Txs \cup {NONE} /\ u # NONE
        /\ <<w, u, "Mempool">> \in S /\ Signum(Net[w][u]) = Signum(Net[w][o])
    BY <2>3, AnnouncedUnderIs
  <2> HIDE DEF u
  <2>5. e \in RecordEntries /\ e.wallet \in W /\ RecordOK(e, C, S)
    BY <2>4 DEF RecordEntries, RecordOK, Stages
  <2> HIDE DEF e
  <2>6. <<e>> \in Seq(RecordEntries) /\ ToSet(<<e>>) = {e}
    BY <2>5 DEF ToSet
  <2>7. PayloadOK(Remember(p, <<e>>), W, H1, C, S)
    BY <1>3, <2>5, <2>6, RememberKeeps
  <2> QED BY <2>1, <2>7
<1> QED BY <1>4, <1>5

-----------------------------------------------------------------------------
(* What one sync records.                                                  *)

\* What a sync moved of a wallet, H holding what was held before it and C what
\* is in a block after it.
MovesOK(mv, w, H, C) ==
  /\ mv.confirmed \in Seq(Txs) /\ \A t \in ToSet(mv.confirmed) : <<w, t>> \in C
  /\ mv.new \in Seq(Txs) /\ \A t \in ToSet(mv.new) : <<w, t>> \notin H
  /\ \A i, j \in DOMAIN mv.new : mv.new[i] = mv.new[j] => i = j
  /\ \A t \in mv.mined : <<w, t>> \in C
  /\ \A t \in ToSet(mv.new) : t \notin mv.mined => <<w, t>> \notin C
  /\ mv.before \in Seq(Txs)
  /\ \A t \in ToSet(mv.new), o \in ToSet(mv.before) : Conflict(t, o) => <<w, o>> \notin C
  /\ mv.gone \in Seq(Txs)

\* The head of a list is in it.
LEMMA HeadIs ==
  ASSUME NEW T, NEW list \in Seq(T), list # << >>
  PROVE  Head(list) \in ToSet(list) /\ Head(list) \in T
<1>1. 1 \in DOMAIN list /\ Head(list) = list[1] /\ list[1] \in T
  OBVIOUS
<1> QED BY <1>1 DEF ToSet

\* A transaction seen for the first time: its arrival may wait from now on.
LEMMA ArrivalKeeps ==
  ASSUME NEW p, NEW W, NEW H, NEW C, NEW S, PayloadOK(p, W, H, C, S),
         NEW w \in W, w \in Wallets, NEW mv, NEW t \in Txs, NEW n \in Nat,
         <<w, t>> \notin H, t \in mv.mined <=> <<w, t>> \in C, mv.before \in Seq(Txs),
         \A o \in ToSet(mv.before) : Conflict(t, o) => <<w, o>> \notin C
  PROVE  PayloadOK(RecordArrival(p, w, t, mv, n), W, H \cup {<<w, t>>}, C, S)
<1> DEFINE some == {o \in ToSet(mv.before) : Conflict(t, o) /\ Bumps(w, t, o)}
           bumped == BumpedBy(w, t, mv.before)
           told == {o \in ToSet(bumped) : PendingSaid(p, w, o)}
           heard == Only(bumped, told)
           H1 == H \cup {<<w, t>>}
<1>1. PayloadOK(p, W, H1, C, S)
  BY MoreHeld
<1>2. bumped \in Seq(Txs) /\ ToSet(bumped) = ToSet(mv.before) \cap some
  <2>1. bumped = Only(mv.before, some)
    BY DEF BumpedBy
  <2> HIDE DEF some, bumped
  <2> QED BY <2>1, OnlyIs
<1>3. ASSUME NEW o \in ToSet(bumped)
      PROVE  <<w, o>> \notin C /\ Signum(Net[w][t]) = Signum(Net[w][o])
  BY <1>2 DEF Bumps
<1> HIDE DEF bumped, some
<1>4. heard \in Seq(Txs) /\ ToSet(heard) = ToSet(bumped) \cap told
  BY <1>2, OnlyIs
<1> HIDE DEF heard
<1>5. CASE t \in mv.mined
  <2> DEFINE u == IF bumped = << >> THEN NONE ELSE AnnouncedUnder(p, w, Head(bumped))
  <2>1. RecordArrival(p, w, t, mv, n) = Push(p, w, t, "Confirmed", u, n)
    BY <1>5 DEF RecordArrival, bumped
  <2>2. u \in Txs \cup {NONE} /\ (u # NONE => WasSaid(S, w, u))
    <3>1. CASE bumped = << >>
      BY <3>1
    <3>2. CASE bumped # << >>
      <4> DEFINE o == Head(bumped)
      <4>1. o \in ToSet(bumped) /\ o \in Txs
        BY <1>2, <3>2, HeadIs
      <4> HIDE DEF o
      <4>2. <<w, o>> \notin C
        BY <1>3, <4>1
      <4>3. /\ AnnouncedUnder(p, w, o) \in Txs \cup {NONE}
            /\ AnnouncedUnder(p, w, o) # NONE => <<w, AnnouncedUnder(p, w, o), "Mempool">> \in S
        BY <4>1, <4>2, AnnouncedUnderIs
      <4>4. u = AnnouncedUnder(p, w, o)
        BY <3>2 DEF o
      <4> HIDE DEF u
      <4> QED BY <4>3, <4>4 DEF WasSaid
    <3> QED BY <3>1, <3>2
  <2> HIDE DEF u, H1
  <2>3. NewsOK([wallet |-> w, tx |-> t, stage |-> "Confirmed", replaces |-> u, at |-> n], H1, C, S)
    BY <1>5, <2>2 DEF NewsOK
  <2>4. "Confirmed" \in Stages
    BY DEF Stages
  <2>5. PayloadOK(Push(p, w, t, "Confirmed", u, n), W, H1, C, S)
    BY <1>1, <2>2, <2>3, <2>4, PushKeeps
  <2> QED BY <2>1, <2>5 DEF H1
<1>6. CASE t \notin mv.mined /\ heard # << >>
  <2> DEFINE o == Head(heard)
  <2>1. RecordArrival(p, w, t, mv, n) = Replace(p, w, o, t)
    BY <1>6 DEF RecordArrival, bumped, heard
  <2>2. o \in ToSet(heard) /\ o \in Txs
    BY <1>4, <1>6, HeadIs
  <2> HIDE DEF o
  <2>3. /\ PendingSaid(p, w, o) /\ <<w, o>> \notin C /\ <<w, t>> \notin C
        /\ Signum(Net[w][t]) = Signum(Net[w][o])
    BY <1>3, <1>4, <1>6, <2>2
  <2> QED BY <2>1, <2>2, <2>3, ReplaceKeeps
<1>7. CASE t \notin mv.mined /\ heard = << >>
  <2>1. RecordArrival(p, w, t, mv, n) = Push(p, w, t, "Mempool", NONE, n)
    BY <1>7 DEF RecordArrival, bumped, heard
  <2>2. NewsOK([wallet |-> w, tx |-> t, stage |-> "Mempool", replaces |-> NONE, at |-> n], H1, C, S)
    BY DEF NewsOK
  <2> HIDE DEF H1
  <2>3. "Mempool" \in Stages /\ NONE \in Txs \cup {NONE}
    BY DEF Stages
  <2>4. PayloadOK(Push(p, w, t, "Mempool", NONE, n), W, H1, C, S)
    BY <1>1, <2>2, <2>3, PushKeeps
  <2> QED BY <2>1, <2>4 DEF H1
<1> QED BY <1>5, <1>6, <1>7

\* What a payload keeps aside, under another list of it.
LEMMA NewVanishing ==
  ASSUME NEW p, NEW W, NEW H, NEW C, NEW S, PayloadOK(p, W, H, C, S),
         NEW q \in Payload, q.announced = p.announced, q.unclaimed = p.unclaimed,
         VanishingOK(q.vanishing, W, S)
  PROVE  PayloadOK(q, W, H, C, S)
BY DEF PayloadOK

LEMMA ForgetVanishedIs ==
  ASSUME NEW p \in Payload, NEW kept \in Seq(VanishedEntries)
  PROVE  /\ ForgetVanished(p, kept) \in Payload /\ ForgetVanished(p, kept).vanishing = kept
         /\ ForgetVanished(p, kept).announced = p.announced
         /\ ForgetVanished(p, kept).unclaimed = p.unclaimed
<1> DEFINE lost == {<<e.wallet, e.told_as, "Dropped">> : e \in ToSet(p.vanishing) \ ToSet(kept)}
<1>1. /\ p.unclaimed \in Seq(NewsEntries) /\ p.announced \in Seq(RecordEntries)
      /\ p.vanishing \in Seq(VanishedEntries)
      /\ p.forgotten \in SUBSET (Wallets \X Txs \X Stages)
  BY DEF Payload, NewsEntries, RecordEntries, VanishedEntries
<1>2. ASSUME NEW e \in ToSet(p.vanishing) PROVE e \in VanishedEntries
  BY <1>1 DEF ToSet
<1>3. lost \subseteq Wallets \X Txs \X Stages
  BY <1>2 DEF VanishedEntries, Stages
<1> HIDE DEF lost
<1>4. ForgetVanished(p, kept) = [p EXCEPT !.vanishing = kept, !.forgotten = @ \cup lost]
  BY DEF ForgetVanished, lost
<1> QED BY <1>1, <1>3, <1>4 DEF Payload, NewsEntries, RecordEntries, VanishedEntries

\* A payment that was said to come, kept aside.
LEMMA VanishKeeps ==
  ASSUME NEW p, NEW W, NEW H, NEW C, NEW S, PayloadOK(p, W, H, C, S),
         NEW w \in W, w \in Wallets, NEW o \in Txs, NEW u \in Txs, NEW n \in Nat,
         <<w, u, "Mempool">> \in S, Net[w][u] > 0
  PROVE  PayloadOK(Vanish(p, w, o, u, n), W, H, C, S)
<1> DEFINE x == [wallet |-> w, tx |-> o, told_as |-> u, missed |-> n]
           more == Append(p.vanishing, x)
           kept == KeepLast(more, UNCLAIMED_MAX)
<1>1. CASE \E e \in ToSet(p.vanishing) : e.wallet = w /\ e.tx = o
  <2>1. Vanish(p, w, o, u, n) = p
    BY <1>1 DEF Vanish
  <2> QED BY <2>1
<1>2. CASE ~\E e \in ToSet(p.vanishing) : e.wallet = w /\ e.tx = o
  <2>1. Vanish(p, w, o, u, n) = ForgetVanished(p, kept)
    BY <1>2 DEF Vanish
  <2>2. p \in Payload /\ p.vanishing \in Seq(VanishedEntries) /\ VanishingOK(p.vanishing, W, S)
    BY DEF PayloadOK, VanishingOK
  <2>3. x \in VanishedEntries /\ x.wallet \in W /\ VanishedOK(x, S)
    BY DEF VanishedEntries, VanishedOK
  <2> HIDE DEF x
  <2>4. more \in Seq(VanishedEntries) /\ ToSet(more) = ToSet(p.vanishing) \cup {x}
    BY <2>2, <2>3, AppendIs
  <2> HIDE DEF more
  <2>5. kept \in Seq(VanishedEntries) /\ ToSet(kept) \subseteq ToSet(more)
    BY <2>4, KeepLastIs, NewsAssumption
  <2> HIDE DEF kept
  <2>6. VanishingOK(kept, W, S)
    BY <2>2, <2>3, <2>4, <2>5 DEF VanishingOK
  <2>7. PayloadOK(ForgetVanished(p, kept), W, H, C, S)
    BY <2>2, <2>5, <2>6, ForgetVanishedIs, NewVanishing
  <2> QED BY <2>1, <2>7
<1> QED BY <1>1, <1>2

\* A transaction the wallet no longer holds: its arrival waits no more.
LEMMA GoneKeeps ==
  ASSUME NEW p, NEW W, NEW H, NEW C, NEW S, PayloadOK(p, W, H, C, S),
         NEW w \in W, w \in Wallets, NEW o \in Txs, NEW n \in Nat
  PROVE  PayloadOK(RecordGone(p, w, o, n), W, H \ {<<w, o>>}, C, S)
<1> DEFINE H1 == H \ {<<w, o>>}
           u == AnnouncedUnder(p, w, o)
           seen == /\ AnnouncedAs(p, w, o, "Mempool") /\ ~AnnouncedAs(p, w, o, "Confirmed")
                   /\ Net[w][o] > 0
<1>1. CASE WaitingAs(p, w, o, "Mempool")
  BY <1>1, UnsayKeeps DEF RecordGone
<1>2. CASE ~WaitingAs(p, w, o, "Mempool")
  <2>1. PayloadOK(p, W, H1, C, S)
    <3>1. UnclaimedOK(p.unclaimed, W, H1, C, S)
      BY <1>2 DEF PayloadOK, UnclaimedOK, NewsOK, WaitingAs, As
    <3> QED BY <3>1 DEF PayloadOK
  <2>2. CASE ~seen
    BY <1>2, <2>1, <2>2 DEF RecordGone
  <2>3. CASE seen
    <3>1. RecordGone(p, w, o, n) = Vanish(p, w, o, u, n)
      BY <1>2, <2>3 DEF RecordGone
    <3>2. /\ u \in Txs \cup {NONE} /\ u # NONE
          /\ <<w, u, "Mempool">> \in S /\ Signum(Net[w][u]) = Signum(Net[w][o])
      BY <2>3, AnnouncedUnderIs
    <3> HIDE DEF u, H1
    <3>3. u \in Txs /\ Net[w][u] > 0
      <4>1. Net[w][u] \in Int /\ Net[w][o] \in Int /\ Net[w][o] > 0
        BY <2>3, <3>2, NewsAssumption
      <4> QED BY <3>2, <4>1 DEF Signum
    <3>4. PayloadOK(Vanish(p, w, o, u, n), W, H1, C, S)
      BY <2>1, <3>2, <3>3, VanishKeeps
    <3> QED BY <3>1, <3>4 DEF H1
  <2> QED BY <2>2, <2>3
<1> QED BY <1>1, <1>2

\* Payloads that are OK.
Fit(W, H, C, S) == {p \in Payload : PayloadOK(p, W, H, C, S)}

\* Payments said dropped, one after the other, as payloads.
PushDroppedSteps(g, p, w, entries, m) ==
  /\ g[0] = p /\ g[Len(entries)] = PushDropped(p, w, entries, m)
  /\ \A k \in 0..Len(entries) : g[k] \in Payload
  /\ \A k \in 1..Len(entries) :
       g[k] = Push(g[k - 1], w, entries[k].told_as, "Dropped", NONE, m)

\* Payments said to come, said dropped.
LEMMA PushDroppedKeeps ==
  ASSUME NEW p, NEW W, NEW H, NEW C, NEW S, PayloadOK(p, W, H, C, S),
         NEW w \in W, w \in Wallets, NEW entries \in Seq(VanishedEntries), NEW m \in Nat,
         \A e \in ToSet(entries) : <<w, e.told_as, "Mempool">> \in S /\ Net[w][e.told_as] > 0
  PROVE  /\ PayloadOK(PushDropped(p, w, entries, m), W, H, C, S)
         /\ \E g : PushDroppedSteps(g, p, w, entries, m)
<1> DEFINE n == Len(entries)
           V == Fit(W, H, C, S)
           Good == [k \in 0..n |-> V]
           F == [x \in (1..n) \X V |-> Push(x[2], w, entries[x[1]].told_as, "Dropped", NONE, m)]
           Is(f) == f = [k \in 0..n |->
                           IF k = 0 THEN p
                           ELSE Push(f[k - 1], w, entries[k].told_as, "Dropped", NONE, m)]
<1>1. n \in Nat /\ DOMAIN entries = 1..n
  OBVIOUS
<1>2. ASSUME NEW k \in 1..n, NEW q \in V
      PROVE  Push(q, w, entries[k].told_as, "Dropped", NONE, m) \in V
  <2> DEFINE t == entries[k].told_as
  <2>1. /\ entries[k] \in ToSet(entries) /\ entries[k] \in VanishedEntries
    BY <1>1 DEF ToSet
  <2>2. t \in Txs /\ <<w, t, "Mempool">> \in S /\ Net[w][t] > 0
    BY <2>1 DEF VanishedEntries
  <2> HIDE DEF t
  <2>3. NewsOK([wallet |-> w, tx |-> t, stage |-> "Dropped", replaces |-> NONE, at |-> m], H, C, S)
    BY <2>2 DEF NewsOK
  <2>4. "Dropped" \in Stages /\ NONE \in Txs \cup {NONE} /\ PayloadOK(q, W, H, C, S)
    BY DEF Stages, Fit
  <2>5. PayloadOK(Push(q, w, t, "Dropped", NONE, m), W, H, C, S)
    BY <2>2, <2>3, <2>4, PushKeeps
  <2>6. Push(q, w, t, "Dropped", NONE, m) \in Payload
    BY <2>5 DEF PayloadOK
  <2> QED BY <2>5, <2>6 DEF Fit, t
<1>3. p \in V
  BY DEF Fit, PayloadOK
<1>4. \E f : Is(f)
  <2>1. \A k \in 1..n : \A q \in Good[k - 1] : F[<<k, q>>] \in Good[k]
    <3> HIDE DEF V
    <3>1. \A k \in 1..n : k \in 0..n /\ k - 1 \in 0..n
      BY <1>1
    <3>2. ASSUME NEW k \in 1..n, NEW q \in V PROVE F[<<k, q>>] \in V
      BY <1>2
    <3>3. \A k \in 1..n : Good[k] = V /\ Good[k - 1] = V
      BY <3>1
    <3> HIDE DEF Good, F, n
    <3> QED BY <3>2, <3>3
  <2>2. Good \in [0..n -> SUBSET V] /\ p \in Good[0]
    BY <1>1, <1>3
  <2>3. PICK f \in [0..n -> V] : UpTo(f, n, p, F)
    <3> HIDE DEF Good, F, V, n
    <3> QED BY <1>1, <2>1, <2>2, Fold
  <2>4. ASSUME NEW k \in 0..n, k # 0
        PROVE  F[<<k, f[k - 1]>>] = Push(f[k - 1], w, entries[k].told_as, "Dropped", NONE, m)
    <3>1. k \in 1..n /\ f[k - 1] \in V
      BY <1>1, <2>4
    <3> HIDE DEF V
    <3> QED BY <3>1
  <2> HIDE DEF F
  <2>5. Is(f)
    BY <2>3, <2>4 DEF UpTo
  <2> QED BY <2>5
<1> DEFINE g == CHOOSE f : Is(f)
<1>5. Is(g)
  BY <1>4
<1>6. PushDropped(p, w, entries, m) = g[n]
  BY DEF PushDropped
<1> HIDE DEF g
<1>7. g[0] = p /\ \A k \in 1..n : g[k] = Push(g[k - 1], w, entries[k].told_as, "Dropped", NONE, m)
  <2>1. \A k \in 0..n : g[k] = IF k = 0 THEN p
                               ELSE Push(g[k - 1], w, entries[k].told_as, "Dropped", NONE, m)
    BY <1>5, Zenon
  <2> QED BY <1>1, <2>1
<1>8. \A k \in 0..n : g[k] \in Good[k]
  <2>1. g[0] \in Good[0]
    BY <1>1, <1>3, <1>7
  <2>2. ASSUME NEW k \in 1..n, g[k - 1] \in Good[k - 1] PROVE g[k] \in Good[k]
    BY <1>1, <1>2, <1>7, <2>2
  <2> HIDE DEF Good, n
  <2> QED BY <1>1, <2>1, <2>2, Climb
<1>9. n \in 0..n
  BY <1>1
<1>10. PayloadOK(g[n], W, H, C, S)
  BY <1>8, <1>9 DEF Fit
<1>11. \A k \in 0..n : g[k] \in Payload
  BY <1>8 DEF Fit
<1>12. PushDroppedSteps(g, p, w, entries, m)
  BY <1>6, <1>7, <1>11 DEF PushDroppedSteps
<1> QED BY <1>6, <1>10, <1>12

\* Payments found in a block, one after the other, as payloads.
RecordConfirmedSteps(g, p, w, mv, m) ==
  /\ g[0] = p /\ g[Len(mv.confirmed)] = RecordConfirmed(p, w, mv, m)
  /\ \A k \in 0..Len(mv.confirmed) : g[k] \in Payload
  /\ \A k \in 1..Len(mv.confirmed) :
       g[k] = Push(g[k - 1], w, mv.confirmed[k], "Confirmed",
                   FirstOf(g[k - 1], w, mv.confirmed[k]), m)

\* Payments found in a block, one after the other.
LEMMA RecordConfirmedKeeps ==
  ASSUME NEW p, NEW W, NEW H, NEW C, NEW S, PayloadOK(p, W, H, C, S),
         NEW w \in W, w \in Wallets, NEW mv, MovesOK(mv, w, H, C), NEW m \in Nat
  PROVE  /\ PayloadOK(RecordConfirmed(p, w, mv, m), W, H, C, S)
         /\ \E g : RecordConfirmedSteps(g, p, w, mv, m)
<1> DEFINE list == mv.confirmed
           n == Len(list)
           Say(q, k) == Push(q, w, list[k], "Confirmed", FirstOf(q, w, list[k]), m)
           Now(k) == H
           Good == [k \in 0..n |-> Fit(W, Now(k), C, S)]
           F == [x \in (1..n) \X Payload |-> Say(x[2], x[1])]
           Is(f) == f = [k \in 0..n |-> IF k = 0 THEN p ELSE Say(f[k - 1], k)]
<1>1. n \in Nat /\ DOMAIN list = 1..n /\ list \in Seq(Txs)
  BY DEF MovesOK
<1>2. \A k \in 1..n : k \in 0..n /\ k - 1 \in 0..n
  BY <1>1
<1>3. Fit(W, Now(0), C, S) \subseteq Payload /\ p \in Fit(W, Now(0), C, S)
  <2>1. Now(0) = H
    OBVIOUS
  <2> HIDE DEF Now
  <2> QED BY <2>1 DEF Fit, PayloadOK
<1>4. ASSUME NEW k \in 1..n, NEW q \in Fit(W, Now(k - 1), C, S)
      PROVE  Say(q, k) \in Fit(W, Now(k), C, S)
  <2> DEFINE t == list[k]
             u == AnnouncedUnder(q, w, t)
             r == FirstOf(q, w, t)
  <2>1. t \in Txs /\ t \in ToSet(list)
    BY <1>1 DEF ToSet
  <2>2. <<w, t>> \in C
    BY <2>1 DEF MovesOK
  <2>3. PayloadOK(q, W, H, C, S)
    BY DEF Fit
  <2>4. r = IF u = t THEN NONE ELSE u
    BY DEF FirstOf
  <2> HIDE DEF t, r
  <2>5. u \in Txs \cup {NONE} /\ (u # t /\ u # NONE => WasSaid(S, w, u))
    BY <2>1, <2>3, AnnouncedUnderIs
  <2> HIDE DEF u
  <2>6. r \in Txs \cup {NONE} /\ (r # NONE => WasSaid(S, w, r))
    BY <2>4, <2>5
  <2>7. NewsOK([wallet |-> w, tx |-> t, stage |-> "Confirmed", replaces |-> r, at |-> m], H, C, S)
    BY <2>2, <2>6 DEF NewsOK
  <2>8. "Confirmed" \in Stages
    BY DEF Stages
  <2>9. PayloadOK(Push(q, w, t, "Confirmed", r, m), W, H, C, S)
    BY <2>1, <2>3, <2>6, <2>7, <2>8, PushKeeps
  <2>10. Push(q, w, t, "Confirmed", r, m) \in Payload
    BY <2>9 DEF PayloadOK
  <2> QED BY <2>9, <2>10 DEF Fit, t, r
<1> HIDE DEF Now
<1>5. Good \in [0..n -> SUBSET Payload] /\ p \in Good[0]
  BY <1>1, <1>3 DEF Fit
<1>6. \A k \in 0..n : Good[k] = Fit(W, Now(k), C, S)
  OBVIOUS
<1> HIDE DEF Good
<1>7. \E f : Is(f)
  <2>1. \A k \in 1..n : \A q \in Good[k - 1] : F[<<k, q>>] \in Good[k]
    <3> SUFFICES ASSUME NEW k \in 1..n, NEW q \in Good[k - 1] PROVE F[<<k, q>>] \in Good[k]
      OBVIOUS
    <3>1. q \in Fit(W, Now(k - 1), C, S) /\ Good[k] = Fit(W, Now(k), C, S)
      BY <1>2, <1>6
    <3>2. q \in Payload
      BY <3>1 DEF Fit
    <3>3. F[<<k, q>>] = Say(q, k)
      BY <3>2
    <3> HIDE DEF F
    <3> QED BY <1>4, <3>1, <3>3
  <2>2. PICK f \in [0..n -> Payload] : UpTo(f, n, p, F)
    <3> HIDE DEF F, n
    <3> QED BY <1>1, <1>5, <2>1, Fold
  <2>3. ASSUME NEW k \in 0..n, k # 0
        PROVE  F[<<k, f[k - 1]>>] = Say(f[k - 1], k)
    <3>1. k \in 1..n /\ f[k - 1] \in Payload
      BY <1>1, <2>3
    <3> QED BY <3>1
  <2> HIDE DEF F
  <2>4. Is(f)
    BY <2>2, <2>3 DEF UpTo
  <2> QED BY <2>4
<1> DEFINE g == CHOOSE f : Is(f)
<1>8. Is(g)
  BY <1>7
<1>9. RecordConfirmed(p, w, mv, m) = g[n]
  BY DEF RecordConfirmed
<1> HIDE DEF g
<1>10. g[0] = p /\ \A k \in 1..n : g[k] = Say(g[k - 1], k)
  <2>1. \A k \in 0..n : g[k] = IF k = 0 THEN p ELSE Say(g[k - 1], k)
    BY <1>8, Zenon
  <2>2. 0 \in 0..n
    BY <1>1
  <2> QED BY <1>2, <2>1, <2>2
<1>11. \A k \in 0..n : g[k] \in Good[k]
  <2>1. g[0] \in Good[0]
    BY <1>5, <1>10
  <2>2. ASSUME NEW k \in 1..n, g[k - 1] \in Good[k - 1] PROVE g[k] \in Good[k]
    BY <1>2, <1>4, <1>6, <1>10, <2>2
  <2> HIDE DEF n
  <2> QED BY <1>1, <2>1, <2>2, Climb
<1>12. PayloadOK(g[n], W, Now(n), C, S)
  <2>1. n \in 0..n
    BY <1>1
  <2> QED BY <1>6, <1>11, <2>1 DEF Fit
<1>13. Now(n) = H
  BY <1>1 DEF Now, ToSet
<1>14. \A k \in 0..n : g[k] \in Payload
  BY <1>6, <1>11 DEF Fit
<1>15. RecordConfirmedSteps(g, p, w, mv, m)
  BY <1>9, <1>10, <1>14 DEF RecordConfirmedSteps
<1> QED BY <1>9, <1>12, <1>13, <1>15

\* Arrivals recorded one after the other, as payloads.
RecordArrivalsSteps(g, p, w, mv, m) ==
  /\ g[0] = p /\ g[Len(mv.new)] = RecordArrivals(p, w, mv, m)
  /\ \A k \in 0..Len(mv.new) : g[k] \in Payload
  /\ \A k \in 1..Len(mv.new) :
       g[k] = RecordArrival(g[k - 1], w, mv.new[k], mv, m)

\* Transactions seen for the first time, one after the other.
LEMMA RecordArrivalsKeeps ==
  ASSUME NEW p, NEW W, NEW H, NEW C, NEW S, PayloadOK(p, W, H, C, S),
         NEW w \in W, w \in Wallets, NEW mv, MovesOK(mv, w, H, C), NEW m \in Nat
  PROVE  /\ PayloadOK(RecordArrivals(p, w, mv, m), W, (H \cup {<<w, t>> : t \in ToSet(mv.new)}), C, S)
         /\ \E g : RecordArrivalsSteps(g, p, w, mv, m)
<1> DEFINE list == mv.new
           n == Len(list)
           Now(k) == H \cup {<<w, list[i]>> : i \in 1..k}
           Good == [k \in 0..n |-> Fit(W, Now(k), C, S)]
           F == [x \in (1..n) \X Payload |-> RecordArrival(x[2], w, list[x[1]], mv, m)]
           Is(f) == f = [k \in 0..n |-> IF k = 0 THEN p ELSE RecordArrival(f[k - 1], w, list[k], mv, m)]
<1>1. n \in Nat /\ DOMAIN list = 1..n /\ list \in Seq(Txs)
  BY DEF MovesOK
<1>2. \A k \in 1..n : k \in 0..n /\ k - 1 \in 0..n
  BY <1>1
<1>3. Fit(W, Now(0), C, S) \subseteq Payload /\ p \in Fit(W, Now(0), C, S)
  <2>1. Now(0) = H
    OBVIOUS
  <2> HIDE DEF Now
  <2> QED BY <2>1 DEF Fit, PayloadOK
<1>4. ASSUME NEW k \in 1..n, NEW q \in Fit(W, Now(k - 1), C, S)
      PROVE  RecordArrival(q, w, list[k], mv, m) \in Fit(W, Now(k), C, S)
  <2> DEFINE t == list[k]
             G == Now(k - 1)
  <2>1. t \in Txs /\ t \in ToSet(list)
    BY <1>1 DEF ToSet
  <2>2. <<w, t>> \notin G
    <3>1. ASSUME NEW i \in 1..(k - 1) PROVE list[i] # t
      <4>1. i \in DOMAIN list /\ k \in DOMAIN list /\ i # k
        BY <1>1
      <4> QED BY <4>1 DEF MovesOK
    <3> QED BY <2>1, <3>1 DEF MovesOK
  <2>3. Now(k) = G \cup {<<w, t>>}
    <3>1. 1..k = 1..(k - 1) \cup {k}
      OBVIOUS
    <3> QED BY <3>1
  <2>4. /\ t \in mv.mined <=> <<w, t>> \in C
        /\ mv.before \in Seq(Txs)
        /\ \A o \in ToSet(mv.before) : Conflict(t, o) => <<w, o>> \notin C
    BY <2>1 DEF MovesOK
  <2> HIDE DEF Now, t, G
  <2>5. PayloadOK(q, W, G, C, S)
    BY DEF Fit, G
  <2>6. PayloadOK(RecordArrival(q, w, t, mv, m), W, G \cup {<<w, t>>}, C, S)
    BY <2>1, <2>2, <2>4, <2>5, ArrivalKeeps
  <2>7. RecordArrival(q, w, t, mv, m) \in Payload
    BY <2>6 DEF PayloadOK
  <2> QED BY <2>3, <2>6, <2>7 DEF Fit, t
<1> HIDE DEF Now
<1>5. Good \in [0..n -> SUBSET Payload] /\ p \in Good[0]
  BY <1>1, <1>3 DEF Fit
<1>6. \A k \in 0..n : Good[k] = Fit(W, Now(k), C, S)
  OBVIOUS
<1> HIDE DEF Good
<1>7. \E f : Is(f)
  <2>1. \A k \in 1..n : \A q \in Good[k - 1] : F[<<k, q>>] \in Good[k]
    <3> SUFFICES ASSUME NEW k \in 1..n, NEW q \in Good[k - 1] PROVE F[<<k, q>>] \in Good[k]
      OBVIOUS
    <3>1. q \in Fit(W, Now(k - 1), C, S) /\ Good[k] = Fit(W, Now(k), C, S)
      BY <1>2, <1>6
    <3>2. q \in Payload
      BY <3>1 DEF Fit
    <3>3. F[<<k, q>>] = RecordArrival(q, w, list[k], mv, m)
      BY <3>2
    <3> HIDE DEF F
    <3> QED BY <1>4, <3>1, <3>3
  <2>2. PICK f \in [0..n -> Payload] : UpTo(f, n, p, F)
    <3> HIDE DEF F, n
    <3> QED BY <1>1, <1>5, <2>1, Fold
  <2>3. ASSUME NEW k \in 0..n, k # 0
        PROVE  F[<<k, f[k - 1]>>] = RecordArrival(f[k - 1], w, list[k], mv, m)
    <3>1. k \in 1..n /\ f[k - 1] \in Payload
      BY <1>1, <2>3
    <3> QED BY <3>1
  <2> HIDE DEF F
  <2>4. Is(f)
    BY <2>2, <2>3 DEF UpTo
  <2> QED BY <2>4
<1> DEFINE g == CHOOSE f : Is(f)
<1>8. Is(g)
  BY <1>7
<1>9. RecordArrivals(p, w, mv, m) = g[n]
  BY DEF RecordArrivals
<1> HIDE DEF g
<1>10. g[0] = p /\ \A k \in 1..n : g[k] = RecordArrival(g[k - 1], w, list[k], mv, m)
  <2>1. \A k \in 0..n : g[k] = IF k = 0 THEN p ELSE RecordArrival(g[k - 1], w, list[k], mv, m)
    BY <1>8, Zenon
  <2>2. 0 \in 0..n
    BY <1>1
  <2> QED BY <1>2, <2>1, <2>2
<1>11. \A k \in 0..n : g[k] \in Good[k]
  <2>1. g[0] \in Good[0]
    BY <1>5, <1>10
  <2>2. ASSUME NEW k \in 1..n, g[k - 1] \in Good[k - 1] PROVE g[k] \in Good[k]
    BY <1>2, <1>4, <1>6, <1>10, <2>2
  <2> HIDE DEF n
  <2> QED BY <1>1, <2>1, <2>2, Climb
<1>12. PayloadOK(g[n], W, Now(n), C, S)
  <2>1. n \in 0..n
    BY <1>1
  <2> QED BY <1>6, <1>11, <2>1 DEF Fit
<1>13. Now(n) = (H \cup {<<w, t>> : t \in ToSet(mv.new)})
  BY <1>1 DEF Now, ToSet
<1>14. \A k \in 0..n : g[k] \in Payload
  BY <1>6, <1>11 DEF Fit
<1>15. RecordArrivalsSteps(g, p, w, mv, m)
  BY <1>9, <1>10, <1>14 DEF RecordArrivalsSteps
<1> QED BY <1>9, <1>12, <1>13, <1>15

\* Departures recorded one after the other, as payloads.
RecordDeparturesSteps(g, p, w, mv, m) ==
  /\ g[0] = p /\ g[Len(mv.gone)] = RecordDepartures(p, w, mv, m)
  /\ \A k \in 0..Len(mv.gone) : g[k] \in Payload
  /\ \A k \in 1..Len(mv.gone) :
       g[k] = RecordGone(g[k - 1], w, mv.gone[k], m)

\* Transactions the wallet no longer holds, one after the other.
LEMMA RecordDeparturesKeeps ==
  ASSUME NEW p, NEW W, NEW H, NEW C, NEW S, PayloadOK(p, W, H, C, S),
         NEW w \in W, w \in Wallets, NEW mv, mv.gone \in Seq(Txs), NEW m \in Nat
  PROVE  /\ PayloadOK(RecordDepartures(p, w, mv, m), W, (H \ {<<w, t>> : t \in ToSet(mv.gone)}), C, S)
         /\ \E g : RecordDeparturesSteps(g, p, w, mv, m)
<1> DEFINE list == mv.gone
           n == Len(list)
           Now(k) == H \ {<<w, list[i]>> : i \in 1..k}
           Good == [k \in 0..n |-> Fit(W, Now(k), C, S)]
           F == [x \in (1..n) \X Payload |-> RecordGone(x[2], w, list[x[1]], m)]
           Is(f) == f = [k \in 0..n |-> IF k = 0 THEN p ELSE RecordGone(f[k - 1], w, list[k], m)]
<1>1. n \in Nat /\ DOMAIN list = 1..n /\ list \in Seq(Txs)
  OBVIOUS
<1>2. \A k \in 1..n : k \in 0..n /\ k - 1 \in 0..n
  BY <1>1
<1>3. Fit(W, Now(0), C, S) \subseteq Payload /\ p \in Fit(W, Now(0), C, S)
  <2>1. Now(0) = H
    OBVIOUS
  <2> HIDE DEF Now
  <2> QED BY <2>1 DEF Fit, PayloadOK
<1>4. ASSUME NEW k \in 1..n, NEW q \in Fit(W, Now(k - 1), C, S)
      PROVE  RecordGone(q, w, list[k], m) \in Fit(W, Now(k), C, S)
  <2> DEFINE t == list[k]
             G == Now(k - 1)
  <2>1. t \in Txs
    BY <1>1
  <2>2. Now(k) = G \ {<<w, t>>}
    <3>1. 1..k = 1..(k - 1) \cup {k}
      OBVIOUS
    <3> QED BY <3>1
  <2> HIDE DEF Now, t, G
  <2>3. PayloadOK(q, W, G, C, S)
    BY DEF Fit, G
  <2>4. PayloadOK(RecordGone(q, w, t, m), W, G \ {<<w, t>>}, C, S)
    BY <2>1, <2>3, GoneKeeps
  <2>5. RecordGone(q, w, t, m) \in Payload
    BY <2>4 DEF PayloadOK
  <2> QED BY <2>2, <2>4, <2>5 DEF Fit, t
<1> HIDE DEF Now
<1>5. Good \in [0..n -> SUBSET Payload] /\ p \in Good[0]
  BY <1>1, <1>3 DEF Fit
<1>6. \A k \in 0..n : Good[k] = Fit(W, Now(k), C, S)
  OBVIOUS
<1> HIDE DEF Good
<1>7. \E f : Is(f)
  <2>1. \A k \in 1..n : \A q \in Good[k - 1] : F[<<k, q>>] \in Good[k]
    <3> SUFFICES ASSUME NEW k \in 1..n, NEW q \in Good[k - 1] PROVE F[<<k, q>>] \in Good[k]
      OBVIOUS
    <3>1. q \in Fit(W, Now(k - 1), C, S) /\ Good[k] = Fit(W, Now(k), C, S)
      BY <1>2, <1>6
    <3>2. q \in Payload
      BY <3>1 DEF Fit
    <3>3. F[<<k, q>>] = RecordGone(q, w, list[k], m)
      BY <3>2
    <3> HIDE DEF F
    <3> QED BY <1>4, <3>1, <3>3
  <2>2. PICK f \in [0..n -> Payload] : UpTo(f, n, p, F)
    <3> HIDE DEF F, n
    <3> QED BY <1>1, <1>5, <2>1, Fold
  <2>3. ASSUME NEW k \in 0..n, k # 0
        PROVE  F[<<k, f[k - 1]>>] = RecordGone(f[k - 1], w, list[k], m)
    <3>1. k \in 1..n /\ f[k - 1] \in Payload
      BY <1>1, <2>3
    <3> QED BY <3>1
  <2> HIDE DEF F
  <2>4. Is(f)
    BY <2>2, <2>3 DEF UpTo
  <2> QED BY <2>4
<1> DEFINE g == CHOOSE f : Is(f)
<1>8. Is(g)
  BY <1>7
<1>9. RecordDepartures(p, w, mv, m) = g[n]
  BY DEF RecordDepartures
<1> HIDE DEF g
<1>10. g[0] = p /\ \A k \in 1..n : g[k] = RecordGone(g[k - 1], w, list[k], m)
  <2>1. \A k \in 0..n : g[k] = IF k = 0 THEN p ELSE RecordGone(g[k - 1], w, list[k], m)
    BY <1>8, Zenon
  <2>2. 0 \in 0..n
    BY <1>1
  <2> QED BY <1>2, <2>1, <2>2
<1>11. \A k \in 0..n : g[k] \in Good[k]
  <2>1. g[0] \in Good[0]
    BY <1>5, <1>10
  <2>2. ASSUME NEW k \in 1..n, g[k - 1] \in Good[k - 1] PROVE g[k] \in Good[k]
    BY <1>2, <1>4, <1>6, <1>10, <2>2
  <2> HIDE DEF n
  <2> QED BY <1>1, <2>1, <2>2, Climb
<1>12. PayloadOK(g[n], W, Now(n), C, S)
  <2>1. n \in 0..n
    BY <1>1
  <2> QED BY <1>6, <1>11, <2>1 DEF Fit
<1>13. Now(n) = (H \ {<<w, t>> : t \in ToSet(mv.gone)})
  BY <1>1 DEF Now, ToSet
<1>14. \A k \in 0..n : g[k] \in Payload
  BY <1>6, <1>11 DEF Fit
<1>15. RecordDeparturesSteps(g, p, w, mv, m)
  BY <1>9, <1>10, <1>14 DEF RecordDeparturesSteps
<1> QED BY <1>9, <1>12, <1>13, <1>15

\* Part of what is kept aside.
LEMMA SomeVanishing ==
  ASSUME NEW p, NEW W, NEW H, NEW C, NEW S, PayloadOK(p, W, H, C, S), NEW some
  PROVE  LET less == Only(p.vanishing, some)
             q == [p EXCEPT !.vanishing = Only(@, some)]
         IN  /\ PayloadOK(q, W, H, C, S) /\ PayloadOK(ForgetVanished(p, less), W, H, C, S)
             /\ ForgetVanished(p, less).vanishing = less
<1> DEFINE less == Only(p.vanishing, some)
           q == [p EXCEPT !.vanishing = less]
<1>1. p \in Payload /\ p.vanishing \in Seq(VanishedEntries) /\ VanishingOK(p.vanishing, W, S)
  BY DEF PayloadOK, VanishingOK
<1>2. less \in Seq(VanishedEntries) /\ ToSet(less) = ToSet(p.vanishing) \cap some
  BY <1>1, OnlyIs
<1> HIDE DEF less
<1>3. VanishingOK(less, W, S)
  BY <1>1, <1>2 DEF VanishingOK
<1>4. /\ q \in Payload /\ q.vanishing = less /\ q.announced = p.announced
      /\ q.unclaimed = p.unclaimed
  BY <1>1, <1>2, WithVanishing
<1> HIDE DEF q
<1>5. PayloadOK(q, W, H, C, S)
  BY <1>3, <1>4, NewVanishing
<1>6. /\ ForgetVanished(p, less) \in Payload /\ ForgetVanished(p, less).vanishing = less
      /\ ForgetVanished(p, less).announced = p.announced
      /\ ForgetVanished(p, less).unclaimed = p.unclaimed
  BY <1>1, <1>2, ForgetVanishedIs
<1>7. PayloadOK(ForgetVanished(p, less), W, H, C, S)
  BY <1>3, <1>6, NewVanishing
<1> QED BY <1>5, <1>6, <1>7 DEF q, less

\* The payments of a wallet among those kept aside were said to come.
LEMMA VanishedSaid ==
  ASSUME NEW p, NEW W, NEW H, NEW C, NEW S, PayloadOK(p, W, H, C, S), NEW w, NEW some,
         \A e \in ToSet(p.vanishing) \cap some : e.wallet = w
  PROVE  /\ Only(p.vanishing, some) \in Seq(VanishedEntries)
         /\ \A e \in ToSet(Only(p.vanishing, some)) :
              <<w, e.told_as, "Mempool">> \in S /\ Net[w][e.told_as] > 0
<1>1. p.vanishing \in Seq(VanishedEntries) /\ VanishingOK(p.vanishing, W, S)
  BY DEF PayloadOK, VanishingOK
<1>2. /\ Only(p.vanishing, some) \in Seq(VanishedEntries)
      /\ ToSet(Only(p.vanishing, some)) = ToSet(p.vanishing) \cap some
  BY <1>1, OnlyIs
<1> QED BY <1>1, <1>2 DEF VanishingOK, VanishedOK

\* Vanished payments that what is seen now replaces.
LEMMA RecordReplacedKeeps ==
  ASSUME NEW p, NEW W, NEW H, NEW C, NEW S, PayloadOK(p, W, H, C, S),
         NEW w \in W, w \in Wallets, NEW mv, NEW m \in Nat
  PROVE  PayloadOK(RecordReplaced(p, w, mv, m), W, H, C, S)
<1> DEFINE rivals(e) == {t \in ToSet(mv.new) : e.wallet = w /\ Conflict(t, e.tx)}
           apart == {e \in ToSet(p.vanishing) : rivals(e) = {}}
           cut == {e \in ToSet(p.vanishing) \ apart :
                     \A t \in rivals(e) : ~ Bumps(w, t, e.tx)}
           q == [p EXCEPT !.vanishing = Only(@, apart)]
           entries == Only(p.vanishing, cut)
<1>1. RecordReplaced(p, w, mv, m) = PushDropped(q, w, entries, m)
  BY DEF RecordReplaced
<1>2. \A e \in ToSet(p.vanishing) \cap cut : e.wallet = w
  OBVIOUS
<1> HIDE DEF apart, cut
<1>3. PayloadOK(q, W, H, C, S)
  BY SomeVanishing
<1>4. /\ entries \in Seq(VanishedEntries)
      /\ \A e \in ToSet(entries) : <<w, e.told_as, "Mempool">> \in S /\ Net[w][e.told_as] > 0
  BY <1>2, VanishedSaid
<1> HIDE DEF q, entries
<1>5. PayloadOK(PushDropped(q, w, entries, m), W, H, C, S)
  BY <1>3, <1>4, PushDroppedKeeps
<1> QED BY <1>1, <1>5

\* The second look.
LEMMA SettleKeeps ==
  ASSUME NEW p, NEW W, NEW H, NEW C, NEW S, PayloadOK(p, W, H, C, S),
         NEW w \in W, w \in Wallets, NEW held, NEW reread, NEW m \in Nat
  PROVE  PayloadOK(Settle(p, w, held, reread, m), W, H, C, S)
<1> DEFINE all == ToSet(p.vanishing)
           young == {e \in all : e.missed + VANISHING_FOR >= m}
           back == {e \in all : e.wallet = w /\ e.tx \in held}
           missed == {e \in all : /\ e.wallet = w
                                  /\ m >= e.missed + DROPPED_AFTER
                                  /\ e.tx \in reread \ held}
           kept == ForgetVanished(p, Only(p.vanishing, young))
           left == all \ (back \cup missed)
           q == [kept EXCEPT !.vanishing = Only(@, left)]
           entries == Only(kept.vanishing, missed)
<1>1. Settle(p, w, held, reread, m) = PushDropped(q, w, entries, m)
  BY DEF Settle
<1>2. \A e \in missed : e.wallet = w
  OBVIOUS
<1> HIDE DEF young, left, missed
<1>3. PayloadOK(kept, W, H, C, S)
  BY SomeVanishing
<1> HIDE DEF kept
<1>4. PayloadOK(q, W, H, C, S)
  BY <1>3, SomeVanishing
<1>5. /\ entries \in Seq(VanishedEntries)
      /\ \A e \in ToSet(entries) : <<w, e.told_as, "Mempool">> \in S /\ Net[w][e.told_as] > 0
  BY <1>2, <1>3, VanishedSaid
<1> HIDE DEF q, entries
<1>6. PayloadOK(PushDropped(q, w, entries, m), W, H, C, S)
  BY <1>4, <1>5, PushDroppedKeeps
<1> QED BY <1>1, <1>6

\* A first sync only forgets what is too old.
LEMMA FirstRecordKeeps ==
  ASSUME NEW p, NEW W, NEW H, NEW C, NEW S, PayloadOK(p, W, H, C, S), NEW w, NEW mv, NEW m
  PROVE  PayloadOK(Record(p, w, TRUE, mv, m), W, H, C, S)
<1>1. Record(p, w, TRUE, mv, m) = Expire(p, m)
  BY DEF Record
<1> QED BY <1>1, ExpireKeeps

\* A later one records what moved.
LEMMA RecordKeeps ==
  ASSUME NEW p, NEW W, NEW H, NEW C, NEW S, PayloadOK(p, W, H, C, S),
         NEW w \in W, w \in Wallets, NEW mv, MovesOK(mv, w, H, C), NEW m \in Nat, NEW G,
         (H \cup {<<w, t>> : t \in ToSet(mv.new)}) \ {<<w, t>> : t \in ToSet(mv.gone)} \subseteq G
  PROVE  PayloadOK(Record(p, w, FALSE, mv, m), W, G, C, S)
<1> DEFINE q0 == Expire(p, m)
           q1 == RecordConfirmed(q0, w, mv, m)
           q2 == RecordArrivals(q1, w, mv, m)
           q3 == RecordDepartures(q2, w, mv, m)
           H1 == H \cup {<<w, t>> : t \in ToSet(mv.new)}
           H2 == H1 \ {<<w, t>> : t \in ToSet(mv.gone)}
<1>1. Record(p, w, FALSE, mv, m) = RecordReplaced(q3, w, mv, m)
  BY DEF Record
<1>2. PayloadOK(q0, W, H, C, S)
  BY ExpireKeeps
<1> HIDE DEF q0
<1>3. PayloadOK(q1, W, H, C, S)
  BY <1>2, RecordConfirmedKeeps
<1> HIDE DEF q1
<1>4. PayloadOK(q2, W, H1, C, S)
  BY <1>3, RecordArrivalsKeeps
<1>5. mv.gone \in Seq(Txs)
  BY DEF MovesOK
<1> HIDE DEF q2, H1
<1>6. PayloadOK(q3, W, H2, C, S)
  BY <1>4, <1>5, RecordDeparturesKeeps
<1> HIDE DEF q3
<1>7. PayloadOK(RecordReplaced(q3, w, mv, m), W, H2, C, S)
  BY <1>6, RecordReplacedKeeps
<1>8. H2 \subseteq G
  BY DEF H1
<1> HIDE DEF H2
<1>9. PayloadOK(RecordReplaced(q3, w, mv, m), W, G, C, S)
  BY <1>7, <1>8, MoreHeld
<1> QED BY <1>1, <1>9

-----------------------------------------------------------------------------
(* Claims and removals.                                                    *)

\* What a claim took and left of the first k of a list.
Split(p, w, list, k) ==
  {v \in [claimed : Seq(NewsEntries), left : Seq(NewsEntries)] :
     /\ Len(v.claimed) + Len(v.left) <= k
     /\ ToSet(v.claimed) \cup ToSet(v.left) \subseteq {list[i] : i \in 1..k}
     /\ Apart(v.claimed) /\ Apart(v.left)
     /\ \A e \in ToSet(v.claimed) : e.wallet = w /\ ~Told(p, w, e.tx, e.stage)
     /\ \A e \in {list[i] : i \in 1..k} :
          \/ e \in ToSet(v.claimed) \cup ToSet(v.left)
          \/ e.wallet = w /\ Told(p, w, e.tx, e.stage)}

\* One more element at the end of what was taken or left.
LEMMA SplitMore ==
  ASSUME NEW list \in Seq(NewsEntries), Apart(list), NEW k \in 1..Len(list),
         NEW part \in Seq(NewsEntries), Apart(part),
         ToSet(part) \subseteq {list[i] : i \in 1..(k - 1)}
  PROVE  /\ Append(part, list[k]) \in Seq(NewsEntries) /\ Apart(Append(part, list[k]))
         /\ ToSet(Append(part, list[k])) = ToSet(part) \cup {list[k]}
         /\ Len(Append(part, list[k])) = Len(part) + 1
<1> DEFINE x == list[k]
<1>1. x \in NewsEntries
  OBVIOUS
<1>2. ASSUME NEW e \in ToSet(part) PROVE ~SameNews(e, x)
  <2>1. PICK i \in 1..(k - 1) : e = list[i]
    OBVIOUS
  <2>2. i \in DOMAIN list /\ k \in DOMAIN list /\ i # k
    OBVIOUS
  <2> QED BY <2>1, <2>2 DEF Apart
<1> HIDE DEF x
<1>3. /\ Append(part, x) \in Seq(NewsEntries) /\ Apart(Append(part, x))
      /\ ToSet(Append(part, x)) = ToSet(part) \cup {x} /\ Len(Append(part, x)) = Len(part) + 1
  BY <1>1, <1>2, AppendIs
<1> QED BY <1>3 DEF x

\* A claim takes news of the wallet that was not said, and loses none of the rest.
LEMMA TakenIs ==
  ASSUME NEW p, NEW w, NEW max \in Nat, p.unclaimed \in Seq(NewsEntries), Apart(p.unclaimed)
  PROVE  Taken(p, w, max) \in Split(p, w, p.unclaimed, Len(p.unclaimed))
<1> DEFINE list == p.unclaimed
           n == Len(list)
           V == [claimed : Seq(NewsEntries), left : Seq(NewsEntries)]
           nil == [claimed |-> << >>, left |-> << >>]
           Good == [k \in 0..n |-> Split(p, w, list, k)]
           Take(v, e) == IF e.wallet # w \/ Len(v.claimed) >= max
                         THEN [v EXCEPT !.left = Append(@, e)]
                         ELSE IF Told(p, w, e.tx, e.stage) THEN v
                         ELSE [v EXCEPT !.claimed = Append(@, e)]
           F == [x \in (1..n) \X V |-> Take(x[2], list[x[1]])]
           Is(f) == f = [k \in 0..n |-> IF k = 0 THEN nil ELSE Take(f[k - 1], list[k])]
<1>1. n \in Nat /\ DOMAIN list = 1..n /\ list \in Seq(NewsEntries)
  OBVIOUS
<1>2. \A k \in 1..n : k \in 0..n /\ k - 1 \in 0..n /\ k - 1 \in Nat
  BY <1>1
<1>3. nil \in Split(p, w, list, 0)
  <2>1. nil \in V /\ nil.claimed = << >> /\ nil.left = << >>
    OBVIOUS
  <2>2. ToSet(<< >>) = {} /\ Apart(<< >>) /\ Len(<< >>) = 0
    BY DEF ToSet, Apart
  <2> HIDE DEF nil
  <2>3. Len(nil.claimed) + Len(nil.left) <= 0
    BY <2>1, <2>2
  <2>4. {list[i] : i \in 1..0} = {}
    OBVIOUS
  <2> QED BY <2>1, <2>2, <2>3, <2>4 DEF Split
<1>4. ASSUME NEW k \in 1..n, NEW v \in Split(p, w, list, k - 1)
      PROVE  Take(v, list[k]) \in Split(p, w, list, k)
  <2> DEFINE e == list[k]
             upto(i) == {list[j] : j \in 1..i}
  <2>1. /\ v \in V /\ v.claimed \in Seq(NewsEntries) /\ v.left \in Seq(NewsEntries)
        /\ Len(v.claimed) + Len(v.left) <= k - 1
        /\ ToSet(v.claimed) \subseteq upto(k - 1) /\ ToSet(v.left) \subseteq upto(k - 1)
        /\ Apart(v.claimed) /\ Apart(v.left)
        /\ \A x \in ToSet(v.claimed) : x.wallet = w /\ ~Told(p, w, x.tx, x.stage)
        /\ \A x \in upto(k - 1) : \/ x \in ToSet(v.claimed) \cup ToSet(v.left)
                                  \/ x.wallet = w /\ Told(p, w, x.tx, x.stage)
    BY DEF Split
  <2>2. upto(k) = upto(k - 1) \cup {e}
    <3>1. 1..k = 1..(k - 1) \cup {k}
      OBVIOUS
    <3> QED BY <3>1
  <2>3. Len(v.claimed) \in Nat /\ Len(v.left) \in Nat /\ k \in Nat
    BY <2>1
  <2>4. /\ Append(v.left, e) \in Seq(NewsEntries) /\ Apart(Append(v.left, e))
        /\ ToSet(Append(v.left, e)) = ToSet(v.left) \cup {e}
        /\ Len(Append(v.left, e)) = Len(v.left) + 1
    BY <1>1, <2>1, SplitMore
  <2>5. /\ Append(v.claimed, e) \in Seq(NewsEntries) /\ Apart(Append(v.claimed, e))
        /\ ToSet(Append(v.claimed, e)) = ToSet(v.claimed) \cup {e}
        /\ Len(Append(v.claimed, e)) = Len(v.claimed) + 1
    BY <1>1, <2>1, SplitMore
  <2> HIDE DEF upto, e, list
  <2>6. CASE e.wallet # w \/ Len(v.claimed) >= max
    <3> DEFINE u == [v EXCEPT !.left = Append(@, e)]
    <3>1. Take(v, e) = u
      BY <2>6
    <3>2. u \in V /\ u.claimed = v.claimed /\ u.left = Append(v.left, e)
      BY <2>1, <2>4
    <3> HIDE DEF u
    <3>3. Len(u.claimed) + Len(u.left) <= k
      BY <2>1, <2>3, <2>4, <3>2
    <3>4. u \in Split(p, w, list, k)
      BY <2>1, <2>2, <2>4, <3>2, <3>3 DEF Split, upto
    <3> QED BY <3>1, <3>4 DEF e
  <2>7. CASE ~(e.wallet # w \/ Len(v.claimed) >= max) /\ Told(p, w, e.tx, e.stage)
    <3>1. Take(v, e) = v
      BY <2>7
    <3>2. Len(v.claimed) + Len(v.left) <= k
      BY <2>1, <2>3
    <3>3. v \in Split(p, w, list, k)
      BY <2>1, <2>2, <2>7, <3>2 DEF Split, upto
    <3> QED BY <3>1, <3>3 DEF e
  <2>8. CASE ~(e.wallet # w \/ Len(v.claimed) >= max) /\ ~Told(p, w, e.tx, e.stage)
    <3> DEFINE u == [v EXCEPT !.claimed = Append(@, e)]
    <3>1. Take(v, e) = u
      BY <2>8
    <3>2. u \in V /\ u.left = v.left /\ u.claimed = Append(v.claimed, e)
      BY <2>1, <2>5
    <3> HIDE DEF u
    <3>3. Len(u.claimed) + Len(u.left) <= k
      BY <2>1, <2>3, <2>5, <3>2
    <3>4. \A x \in ToSet(u.claimed) : x.wallet = w /\ ~Told(p, w, x.tx, x.stage)
      BY <2>1, <2>5, <2>8, <3>2
    <3>5. u \in Split(p, w, list, k)
      BY <2>1, <2>2, <2>5, <3>2, <3>3, <3>4 DEF Split, upto
    <3> QED BY <3>1, <3>5 DEF e
  <2> QED BY <2>6, <2>7, <2>8
<1>5. \A k \in 0..n : Good[k] = Split(p, w, list, k)
  OBVIOUS
<1>6. Good \in [0..n -> SUBSET V] /\ nil \in Good[0]
  <2>1. \A k \in 0..n : Split(p, w, list, k) \in SUBSET V
    BY DEF Split
  <2> HIDE DEF nil, V
  <2> QED BY <1>1, <1>3, <2>1
<1> HIDE DEF Good, Take, nil
<1>7. \E f : Is(f)
  <2>1. \A k \in 1..n : \A q \in Good[k - 1] : F[<<k, q>>] \in Good[k]
    <3> SUFFICES ASSUME NEW k \in 1..n, NEW q \in Good[k - 1] PROVE F[<<k, q>>] \in Good[k]
      OBVIOUS
    <3>1. q \in Split(p, w, list, k - 1) /\ Good[k] = Split(p, w, list, k)
      BY <1>2, <1>5
    <3>2. q \in V
      BY <3>1 DEF Split
    <3>3. F[<<k, q>>] = Take(q, list[k])
      <4> HIDE DEF V
      <4> QED BY <3>2
    <3> HIDE DEF F
    <3> QED BY <1>4, <3>1, <3>3
  <2>2. PICK f \in [0..n -> V] : UpTo(f, n, nil, F)
    <3> HIDE DEF F, n, V
    <3> QED BY <1>1, <1>6, <2>1, Fold
  <2>3. ASSUME NEW k \in 0..n, k # 0
        PROVE  F[<<k, f[k - 1]>>] = Take(f[k - 1], list[k])
    <3> HIDE DEF V
    <3>1. k \in 1..n /\ f[k - 1] \in V
      BY <1>1, <2>3
    <3> QED BY <3>1
  <2> HIDE DEF F
  <2>4. Is(f)
    BY <2>2, <2>3 DEF UpTo
  <2> QED BY <2>4
<1> DEFINE g == CHOOSE f : Is(f)
<1>8. Is(g)
  BY <1>7
<1>9. Taken(p, w, max) = g[n]
  BY DEF Taken, Take, nil
<1> HIDE DEF g
<1>10. g[0] = nil /\ \A k \in 1..n : g[k] = Take(g[k - 1], list[k])
  <2>1. \A k \in 0..n : g[k] = IF k = 0 THEN nil ELSE Take(g[k - 1], list[k])
    BY <1>8, Zenon
  <2>2. 0 \in 0..n
    BY <1>1
  <2> QED BY <1>2, <2>1, <2>2
<1>11. \A k \in 0..n : g[k] \in Good[k]
  <2>1. g[0] \in Good[0]
    BY <1>6, <1>10
  <2>2. ASSUME NEW k \in 1..n, g[k - 1] \in Good[k - 1] PROVE g[k] \in Good[k]
    BY <1>2, <1>4, <1>5, <1>10, <2>2
  <2> HIDE DEF n
  <2> QED BY <1>1, <2>1, <2>2, Climb
<1>12. n \in 0..n
  BY <1>1
<1> QED BY <1>5, <1>9, <1>11, <1>12

\* What is handed out was not said, and is news that was OK.
SpokenRight(spoken, H, C, S) ==
  \A i \in DOMAIN spoken :
    /\ <<spoken[i].wallet, spoken[i].tx, spoken[i].stage>> \notin S
    /\ spoken[i].stage = "Mempool" => <<spoken[i].wallet, spoken[i].tx, "Confirmed">> \notin S
    /\ \E e \in NewsEntries : spoken[i] = Spoken(e) /\ NewsOK(e, H, C, S)

\* Shorter lists fit where longer ones did.
LEMMA Shorter ==
  ASSUME NEW a \in Nat, NEW b \in Nat, NEW c \in Nat, NEW d \in Nat, NEW m \in Nat,
         a <= c, b <= d, c + d <= m
  PROVE  a + b <= m
OBVIOUS

LEMMA Moved ==
  ASSUME NEW a \in Nat, NEW u \in Nat, NEW v \in Nat, NEW g \in Nat, NEW l \in Nat,
         NEW m \in Nat, a + u <= m, v <= u, g + l <= v
  PROVE  a + g <= m /\ (a + g) + l <= m /\ l <= v
OBVIOUS

\* What waited in p is handed out, or waits in q, or was said already.
HandedOver(p, spoken, q) ==
  /\ ToSet(q.announced) = ToSet(p.announced) \cup ToSet(spoken)
  /\ q.forgotten = p.forgotten
  /\ \A e \in ToSet(p.unclaimed) :
       \/ e \in ToSet(q.unclaimed) \/ Told(p, e.wallet, e.tx, e.stage)
       \/ \E f \in ToSet(spoken) : f.wallet = e.wallet /\ f.tx = e.tx /\ f.stage = e.stage

\* What a claim hands out was not said and is now on record.
LEMMA ClaimKeeps ==
  ASSUME NEW p, NEW W, NEW H, NEW C, NEW S, PayloadOK(p, W, H, C, S),
         Recorded(p.announced, W, S), Len(p.announced) + Len(p.unclaimed) <= ANNOUNCED_MAX,
         NEW w \in W, NEW max \in Nat, NEW m
  PROVE  LET spoken == Claimed(p, w, max, m)
             q == Claim(p, w, max, m)
             S1 == S \cup SaidOf(spoken)
         IN  /\ spoken \in Seq(RecordEntries) /\ Apart(spoken) /\ ArrivalsStand(spoken)
             /\ SpokenRight(spoken, H, C, S)
             /\ PayloadOK(q, W, H, C, S1) /\ Recorded(q.announced, W, S1)
             /\ Len(q.announced) + Len(q.unclaimed) <= ANNOUNCED_MAX
             /\ HandedOver(Expire(p, m), spoken, q)
<1> DEFINE q0 == Expire(p, m)
           taken == Taken(q0, w, max)
           got == taken.claimed
           q1 == [q0 EXCEPT !.unclaimed = taken.left]
           spoken == Claimed(p, w, max, m)
           q == Claim(p, w, max, m)
           S1 == S \cup SaidOf(spoken)
           both == p.announced \o spoken
<1>1. /\ PayloadOK(q0, W, H, C, S) /\ q0.announced = p.announced
      /\ Len(q0.unclaimed) <= Len(p.unclaimed)
  BY ExpireKeeps
<1>2. spoken = [i \in DOMAIN got |-> Spoken(got[i])] /\ q = Remember(q1, spoken)
  BY DEF Claim, Claimed
<1> HIDE DEF q0
<1>3. /\ q0 \in Payload /\ q0.unclaimed \in Seq(NewsEntries) /\ Apart(q0.unclaimed)
      /\ ArrivalsStand(q0.unclaimed)
      /\ \A e \in ToSet(q0.unclaimed) : e.wallet \in W /\ NewsOK(e, H, C, S)
      /\ Len(q0.unclaimed) <= UNCLAIMED_MAX
  BY <1>1 DEF PayloadOK, UnclaimedOK
<1>4. taken \in Split(q0, w, q0.unclaimed, Len(q0.unclaimed))
  BY <1>3, TakenIs
<1> HIDE DEF taken
<1>5. {q0.unclaimed[i] : i \in 1..Len(q0.unclaimed)} = ToSet(q0.unclaimed)
  BY <1>3 DEF ToSet
<1>6. /\ got \in Seq(NewsEntries) /\ taken.left \in Seq(NewsEntries)
      /\ Len(got) + Len(taken.left) <= Len(q0.unclaimed)
      /\ ToSet(got) \subseteq ToSet(q0.unclaimed) /\ ToSet(taken.left) \subseteq ToSet(q0.unclaimed)
      /\ Apart(got) /\ Apart(taken.left)
      /\ \A e \in ToSet(got) : e.wallet = w /\ ~Told(q0, w, e.tx, e.stage)
      /\ \A e \in ToSet(q0.unclaimed) : \/ e \in ToSet(got) \cup ToSet(taken.left)
                                        \/ Told(q0, e.wallet, e.tx, e.stage)
  BY <1>4, <1>5 DEF Split
<1> HIDE DEF spoken, q, got
<1>7. /\ DOMAIN got = 1..Len(got) /\ Len(got) \in Nat
      /\ \A i \in DOMAIN got : got[i] \in NewsEntries /\ got[i] \in ToSet(got)
  BY <1>6 DEF ToSet
<1>8. ASSUME NEW i \in DOMAIN got
      PROVE  /\ spoken[i] = Spoken(got[i]) /\ spoken[i] \in RecordEntries
             /\ spoken[i].wallet = got[i].wallet /\ spoken[i].tx = got[i].tx
             /\ spoken[i].stage = got[i].stage /\ spoken[i].replaces = got[i].replaces
  <2>1. spoken[i] = Spoken(got[i])
    BY <1>2
  <2>2. got[i] \in NewsEntries
    BY <1>7
  <2> QED BY <2>1, <2>2 DEF Spoken, NewsEntries, RecordEntries
<1>9. DOMAIN spoken = 1..Len(got) /\ spoken \in Seq(RecordEntries) /\ Len(spoken) = Len(got)
  <2>1. DOMAIN spoken = 1..Len(got)
    BY <1>2, <1>7
  <2>2. spoken \in [1..Len(got) -> RecordEntries]
    BY <1>2, <1>7, <1>8
  <2>3. spoken \in Seq(RecordEntries)
    BY <1>7, <2>2
  <2> QED BY <1>7, <2>1, <2>3
<1>10. Apart(spoken)
  BY <1>6, <1>7, <1>8, <1>9 DEF Apart, SameNews
<1>11. ASSUME NEW i \in DOMAIN spoken
       PROVE  /\ <<spoken[i].wallet, spoken[i].tx, spoken[i].stage>> \notin S
              /\ spoken[i].stage = "Mempool" =>
                   <<spoken[i].wallet, spoken[i].tx, "Confirmed">> \notin S
              /\ spoken[i] = Spoken(got[i]) /\ got[i] \in NewsEntries /\ NewsOK(got[i], H, C, S)
              /\ spoken[i].wallet = w
  <2>1. i \in DOMAIN got /\ got[i] \in ToSet(got) /\ got[i] \in NewsEntries
    BY <1>7, <1>9
  <2>2. got[i].wallet = w /\ ~Told(q0, w, got[i].tx, got[i].stage)
    BY <1>6, <2>1
  <2>3. /\ <<w, got[i].tx, got[i].stage>> \notin S
        /\ got[i].stage = "Mempool" => <<w, got[i].tx, "Confirmed">> \notin S
    BY <1>1, <2>2 DEF Recorded, Told, AnnouncedAs
  <2>4. NewsOK(got[i], H, C, S)
    BY <1>3, <1>6, <2>1
  <2> QED BY <1>8, <2>1, <2>2, <2>3, <2>4
<1>12. /\ q1 \in Payload /\ q1.unclaimed = taken.left /\ q1.announced = p.announced
       /\ q1.vanishing = q0.vanishing
  BY <1>1, <1>3, <1>6, WithUnclaimed
<1> HIDE DEF q1
<1>13. /\ both \in Seq(RecordEntries) /\ Len(both) = Len(p.announced) + Len(got)
       /\ ToSet(both) = ToSet(p.announced) \cup ToSet(spoken)
  <2>1. p.announced \in Seq(RecordEntries)
    BY DEF PayloadOK, AnnouncedOK
  <2> QED BY <1>9, <2>1, JoinedIs
<1>14. Len(both) <= ANNOUNCED_MAX /\ Len(both) + Len(taken.left) <= ANNOUNCED_MAX
       /\ Len(taken.left) <= UNCLAIMED_MAX
  <2>1. /\ Len(p.announced) \in Nat /\ Len(p.unclaimed) \in Nat /\ Len(q0.unclaimed) \in Nat
        /\ Len(taken.left) \in Nat /\ ANNOUNCED_MAX \in Nat /\ UNCLAIMED_MAX \in Nat
    BY <1>3, <1>6, NewsAssumption DEF PayloadOK, AnnouncedOK, UnclaimedOK
  <2>2. /\ Len(p.announced) + Len(got) <= ANNOUNCED_MAX
        /\ (Len(p.announced) + Len(got)) + Len(taken.left) <= ANNOUNCED_MAX
        /\ Len(taken.left) <= Len(q0.unclaimed)
    <3> DEFINE a == Len(p.announced)
               u == Len(p.unclaimed)
               v == Len(q0.unclaimed)
               g == Len(got)
               l == Len(taken.left)
    <3>1. /\ a \in Nat /\ u \in Nat /\ v \in Nat /\ g \in Nat /\ l \in Nat
          /\ ANNOUNCED_MAX \in Nat /\ a + u <= ANNOUNCED_MAX /\ v <= u /\ g + l <= v
      BY <1>1, <1>6, <1>7, <2>1
    <3> HIDE DEF a, u, v, g, l
    <3>2. a + g <= ANNOUNCED_MAX /\ (a + g) + l <= ANNOUNCED_MAX /\ l <= v
      BY <3>1, Moved
    <3> QED BY <3>2 DEF a, u, v, g, l
  <2>3. Len(taken.left) <= UNCLAIMED_MAX
    BY <1>3, <2>1, <2>2
  <2> QED BY <1>13, <2>2, <2>3
<1>15. /\ q \in Payload /\ q.announced = both /\ q.unclaimed = taken.left
       /\ q.vanishing = q0.vanishing
  <2>1. KeepLast(both, ANNOUNCED_MAX) = both
    BY <1>13, <1>14, KeepLastIs, NewsAssumption
  <2>2. q = [q1 EXCEPT !.announced = both]
    BY <1>2, <1>12, <2>1 DEF Remember
  <2> HIDE DEF both
  <2> QED BY <1>12, <1>13, <2>2, WithAnnounced
<1>16. S \subseteq S1 /\ \A i \in DOMAIN spoken :
           <<spoken[i].wallet, spoken[i].tx, spoken[i].stage>> \in S1
  BY DEF SaidOf
<1>17. UnclaimedOK(q.unclaimed, W, H, C, S1)
  <2>1. ASSUME NEW e \in ToSet(q.unclaimed) PROVE e.wallet \in W /\ NewsOK(e, H, C, S1)
    <3>1. e.wallet \in W /\ NewsOK(e, H, C, S)
      BY <1>3, <1>6, <1>15
    <3> QED BY <1>16, <3>1, NewsOKMore
  <2>2. ArrivalsStand(q.unclaimed)
    BY <1>3, <1>6, <1>15, StandLess
  <2> QED BY <1>6, <1>14, <1>15, <2>1, <2>2 DEF UnclaimedOK
<1>18. AnnouncedOK(q.announced, W, C, S1)
  <2>1. ASSUME NEW e \in ToSet(p.announced) PROVE e.wallet \in W /\ RecordOK(e, C, S1)
    <3>1. e.wallet \in W /\ RecordOK(e, C, S)
      BY DEF PayloadOK, AnnouncedOK
    <3> QED BY <1>16, <3>1, RecordOKMore
  <2>2. ASSUME NEW e \in ToSet(spoken) PROVE e.wallet \in W /\ RecordOK(e, C, S1)
    <3>1. PICK i \in DOMAIN spoken : e = spoken[i]
      BY DEF ToSet
    <3>2. i \in DOMAIN got
      BY <1>7, <1>9
    <3>3. /\ NewsOK(got[i], H, C, S) /\ <<e.wallet, e.tx, e.stage>> \in S1
          /\ e.wallet = w
      BY <1>11, <1>16, <3>1
    <3>4. /\ e.wallet = got[i].wallet /\ e.tx = got[i].tx
          /\ e.stage = got[i].stage /\ e.replaces = got[i].replaces
      BY <1>8, <3>1, <3>2
    <3> HIDE DEF S1
    <3> QED BY <1>16, <3>3, <3>4 DEF NewsOK, RecordOK, WasSaid
  <2> QED BY <1>13, <1>15, <2>1, <2>2 DEF AnnouncedOK
<1>19. VanishingOK(q.vanishing, W, S1)
  BY <1>1, <1>15, <1>16 DEF PayloadOK, VanishingOK, VanishedOK
<1>20. Recorded(q.announced, W, S1)
  <2> SUFFICES ASSUME NEW x \in W, NEW t, NEW stage, <<x, t, stage>> \in S1
               PROVE  As(both, x, t, stage) # {}
    BY <1>15 DEF Recorded
  <2>1. CASE <<x, t, stage>> \in S
    <3>1. As(p.announced, x, t, stage) # {}
      BY <2>1 DEF Recorded
    <3> QED BY <1>13, <3>1 DEF As
  <2>2. CASE <<x, t, stage>> \in SaidOf(spoken)
    <3>1. PICK i \in DOMAIN spoken :
                <<x, t, stage>> = <<spoken[i].wallet, spoken[i].tx, spoken[i].stage>>
      BY <2>2 DEF SaidOf
    <3>2. spoken[i] \in ToSet(both)
      BY <1>13 DEF ToSet
    <3> QED BY <3>1, <3>2 DEF As
  <2> QED BY <2>1, <2>2
<1> HIDE DEF S1
<1>21. PayloadOK(q, W, H, C, S1)
  BY <1>15, <1>17, <1>18, <1>19, <1>20 DEF PayloadOK, OnRecord
<1>22. Len(q.announced) + Len(q.unclaimed) <= ANNOUNCED_MAX
  BY <1>14, <1>15
<1>23. SpokenRight(spoken, H, C, S)
  BY <1>11 DEF SpokenRight
<1>24. ArrivalsStand(spoken)
  <2>1. ArrivalsStand(got)
    BY <1>3, <1>6, StandLess
  <2>2. ASSUME NEW e \in ToSet(spoken)
        PROVE  \E f \in ToSet(got) : e.wallet = f.wallet /\ e.tx = f.tx /\ e.stage = f.stage
    <3>1. PICK i \in DOMAIN spoken : e = spoken[i]
      BY DEF ToSet
    <3>2. i \in DOMAIN got /\ got[i] \in ToSet(got)
      BY <1>7, <1>9
    <3> QED BY <1>8, <3>1, <3>2
  <2> QED BY <2>1, <2>2 DEF ArrivalsStand
<1>25. q.forgotten = q0.forgotten
  <2>1. q1.forgotten = q0.forgotten
    BY <1>3 DEF q1, Payload
  <2> QED BY <1>2, <1>12, <2>1 DEF Remember, Payload
<1>26. HandedOver(q0, spoken, q)
  <2>1. ASSUME NEW e \in ToSet(got)
        PROVE  \E f \in ToSet(spoken) : f.wallet = e.wallet /\ f.tx = e.tx /\ f.stage = e.stage
    <3>1. PICK i \in DOMAIN got : e = got[i]
      BY DEF ToSet
    <3>2. spoken[i] \in ToSet(spoken)
      BY <1>7, <1>9 DEF ToSet
    <3> QED BY <1>8, <3>1, <3>2
  <2>2. ToSet(q.announced) = ToSet(q0.announced) \cup ToSet(spoken)
    BY <1>1, <1>13, <1>15
  <2> QED BY <1>6, <1>15, <1>25, <2>1, <2>2 DEF HandedOver
<1> QED BY <1>9, <1>10, <1>20, <1>21, <1>22, <1>23, <1>24, <1>26 DEF spoken, q, S1, q0

\* What is in H of the wallets other than w is in H1.
Spared(w, H, H1) == \A x, t : x # w /\ <<x, t>> \in H => <<x, t>> \in H1

\* What is left of the other wallets when one is removed.
LEMMA PurgeKeeps ==
  ASSUME NEW p, NEW W, NEW H, NEW C, NEW S, PayloadOK(p, W, H, C, S),
         Recorded(p.announced, W, S), Len(p.announced) + Len(p.unclaimed) <= ANNOUNCED_MAX,
         NEW w, NEW H1, NEW C1, Spared(w, H, H1), Spared(w, C, C1)
  PROVE  LET q == Purge(p, w) IN
         /\ PayloadOK(q, W \ {w}, H1, C1, S) /\ Recorded(q.announced, W \ {w}, S)
         /\ Len(q.announced) + Len(q.unclaimed) <= ANNOUNCED_MAX
<1> DEFINE others(list) == Only(list, {e \in ToSet(list) : e.wallet # w})
           q == Purge(p, w)
           W1 == W \ {w}
<1>1. q = [unclaimed |-> others(p.unclaimed), announced |-> others(p.announced),
           vanishing |-> others(p.vanishing), forgotten |-> {f \in p.forgotten : f[1] # w}]
  BY DEF Purge
<1>2. ASSUME NEW T, NEW list \in Seq(T)
      PROVE  /\ others(list) \in Seq(T) /\ Len(others(list)) \in Nat
             /\ Len(others(list)) <= Len(list) /\ (Apart(list) => Apart(others(list)))
             /\ \A e : e \in ToSet(others(list)) <=> e \in ToSet(list) /\ e.wallet # w
  <2> DEFINE some == {e \in ToSet(list) : e.wallet # w}
  <2>1. \A e : e \in ToSet(list) \cap some <=> e \in ToSet(list) /\ e.wallet # w
    OBVIOUS
  <2> HIDE DEF some
  <2>2. /\ Only(list, some) \in Seq(T) /\ Len(Only(list, some)) \in Nat
        /\ Len(Only(list, some)) <= Len(list) /\ (Apart(list) => Apart(Only(list, some)))
        /\ ToSet(Only(list, some)) = ToSet(list) \cap some
    BY OnlyIs
  <2> QED BY <2>1, <2>2 DEF some
<1>3. /\ p \in Payload /\ p.unclaimed \in Seq(NewsEntries) /\ p.announced \in Seq(RecordEntries)
      /\ p.vanishing \in Seq(VanishedEntries) /\ p.forgotten \in SUBSET (Wallets \X Txs \X Stages)
  BY DEF PayloadOK, Payload, NewsEntries, RecordEntries, VanishedEntries
<1> HIDE DEF others
<1>4. /\ q.unclaimed = others(p.unclaimed) /\ q.announced = others(p.announced)
      /\ q.vanishing = others(p.vanishing)
      /\ q.unclaimed \in Seq(NewsEntries) /\ q.announced \in Seq(RecordEntries)
      /\ q.vanishing \in Seq(VanishedEntries)
  BY <1>1, <1>2, <1>3
<1>5. q \in Payload
  <2>1. {f \in p.forgotten : f[1] # w} \in SUBSET (Wallets \X Txs \X Stages)
    BY <1>3
  <2> HIDE DEF q
  <2> QED BY <1>1, <1>4, <2>1 DEF Payload, NewsEntries, RecordEntries, VanishedEntries
<1> HIDE DEF q, W1
<1>6. UnclaimedOK(q.unclaimed, W1, H1, C1, S)
  <2>1. UnclaimedOK(p.unclaimed, W, H, C, S)
    BY DEF PayloadOK
  <2>2. ASSUME NEW e \in ToSet(q.unclaimed) PROVE e.wallet \in W1 /\ NewsOK(e, H1, C1, S)
    <3>1. e.wallet # w /\ e.wallet \in W /\ NewsOK(e, H, C, S)
      BY <1>2, <1>3, <1>4, <2>1 DEF UnclaimedOK
    <3> QED BY <3>1, NewsOKMore DEF W1, Spared
  <2>3. Len(q.unclaimed) <= UNCLAIMED_MAX /\ Apart(q.unclaimed)
    <3>1. Len(q.unclaimed) \in Nat /\ Len(q.unclaimed) <= Len(p.unclaimed) /\ Apart(q.unclaimed)
      <4>1. Apart(p.unclaimed)
        BY <2>1 DEF UnclaimedOK
      <4>2. /\ Len(others(p.unclaimed)) \in Nat /\ Len(others(p.unclaimed)) <= Len(p.unclaimed)
            /\ Apart(p.unclaimed) => Apart(others(p.unclaimed))
        BY <1>2, <1>3
      <4> QED BY <1>4, <4>1, <4>2
    <3>2. Len(p.unclaimed) \in Nat /\ Len(p.unclaimed) <= UNCLAIMED_MAX /\ UNCLAIMED_MAX \in Nat
      BY <1>3, <2>1, NewsAssumption DEF UnclaimedOK
    <3> QED BY <3>1, <3>2
  <2>4. ArrivalsStand(q.unclaimed)
    <3>1. ToSet(q.unclaimed) \subseteq ToSet(p.unclaimed)
      BY <1>2, <1>3, <1>4
    <3> QED BY <2>1, <3>1, StandLess DEF UnclaimedOK
  <2> QED BY <1>4, <2>2, <2>3, <2>4 DEF UnclaimedOK
<1>7. AnnouncedOK(q.announced, W1, C1, S)
  <2>1. ASSUME NEW e \in ToSet(q.announced) PROVE e.wallet \in W1 /\ RecordOK(e, C1, S)
    <3>1. e.wallet # w /\ e.wallet \in W /\ RecordOK(e, C, S)
      BY <1>2, <1>3, <1>4 DEF PayloadOK, AnnouncedOK
    <3> QED BY <3>1, RecordOKMore DEF W1, Spared
  <2> QED BY <1>4, <2>1 DEF AnnouncedOK
<1>8. VanishingOK(q.vanishing, W1, S)
  <2>1. ASSUME NEW e \in ToSet(q.vanishing) PROVE e.wallet \in W1 /\ VanishedOK(e, S)
    BY <1>2, <1>3, <1>4 DEF PayloadOK, VanishingOK, W1
  <2> QED BY <1>4, <2>1 DEF VanishingOK
<1>9. Recorded(q.announced, W1, S)
  <2> SUFFICES ASSUME NEW x \in W1, NEW t, NEW stage, <<x, t, stage>> \in S
               PROVE  As(q.announced, x, t, stage) # {}
    BY DEF Recorded
  <2>1. x \in W /\ x # w
    BY DEF W1
  <2>2. PICK e \in ToSet(p.announced) : e.wallet = x /\ e.tx = t /\ e.stage = stage
    BY <2>1 DEF Recorded, As
  <2>3. e \in ToSet(q.announced)
    BY <1>2, <1>3, <1>4, <2>1, <2>2
  <2> QED BY <2>2, <2>3 DEF As
<1>10. PayloadOK(q, W1, H1, C1, S)
  BY <1>5, <1>6, <1>7, <1>8, <1>9 DEF PayloadOK, OnRecord
<1>11. Len(q.announced) + Len(q.unclaimed) <= ANNOUNCED_MAX
  <2>1. /\ Len(q.announced) \in Nat /\ Len(q.announced) <= Len(p.announced)
        /\ Len(q.unclaimed) \in Nat /\ Len(q.unclaimed) <= Len(p.unclaimed)
    <3>1. Len(others(p.announced)) \in Nat /\ Len(others(p.announced)) <= Len(p.announced)
      BY <1>2, <1>3
    <3>2. Len(others(p.unclaimed)) \in Nat /\ Len(others(p.unclaimed)) <= Len(p.unclaimed)
      BY <1>2, <1>3
    <3> QED BY <1>4, <3>1, <3>2
  <2>2. Len(p.announced) \in Nat /\ Len(p.unclaimed) \in Nat /\ ANNOUNCED_MAX \in Nat
    BY <1>3, NewsAssumption
  <2> QED BY <2>1, <2>2, Shorter
<1> QED BY <1>9, <1>10, <1>11 DEF q, W1

-----------------------------------------------------------------------------
(* The steps.                                                              *)

\* The lists of a set have all of it, each once.
LEMMA SeqsAre ==
  ASSUME NEW T \in SUBSET Txs, NEW f \in SetToSeqs(T)
  PROVE  f \in Seq(Txs) /\ ToSet(f) = T /\ \A i, j \in DOMAIN f : f[i] = f[j] => i = j
<1> DEFINE n == Cardinality(T)
<1>1. IsFiniteSet(T) /\ n \in Nat
  BY NewsAssumption, FS_Subset, FS_CardinalityType
<1>2. f \in [1..n -> T] /\ \A i, j \in 1..n : i # j => f[i] # f[j]
  BY DEF SetToSeqs
<1>3. IsFiniteSet(1..n) /\ Cardinality(1..n) = n
  <2>1. IsFiniteSet(1..n) /\ Cardinality(1..n) = IF 1 > n THEN 0 ELSE n - 1 + 1
    BY <1>1, FS_Interval
  <2>2. (IF 1 > n THEN 0 ELSE n - 1 + 1) = n
    BY <1>1
  <2> QED BY <2>1, <2>2
<1> HIDE DEF n
<1>4. f \in Injection(1..n, T)
  BY <1>2 DEF Injection, IsInjective
<1>5. f \in Surjection(1..n, T)
  <2>1. Cardinality(1..n) = Cardinality(T)
    BY <1>3 DEF n
  <2> QED BY <1>1, <1>4, <2>1, FS_Injection
<1>6. ToSet(f) = T
  BY <1>2, <1>5 DEF Surjection, ToSet
<1>7. f \in Seq(Txs) /\ DOMAIN f = 1..n
  BY <1>1, <1>2
<1> QED BY <1>2, <1>6, <1>7

\* What a sync moved, compared with what it leaves.
LEMMA MovesAre ==
  ASSUME ~Reorgs, NEW S, StateGood(mem, S), NEW w \in Wallets, NEW view \in Views,
         Consistent(view), Follows(mem.held[w], view), NEW mv \in Moves(w, view)
  PROVE  LET H == HeldIn(mem.held)
             held == [mem.held EXCEPT ![w] = view]
         IN  /\ MovesOK(mv, w, H, InBlocks(held))
             /\ (H \cup {<<w, t>> : t \in ToSet(mv.new)}) \ {<<w, t>> : t \in ToSet(mv.gone)}
                  \subseteq HeldIn(held)
             /\ InBlocks(mem.held) \subseteq InBlocks(held)
<1> DEFINE old == mem.held[w]
           H == HeldIn(mem.held)
           held == [mem.held EXCEPT ![w] = view]
           C == InBlocks(held)
           new == {t \in Txs : old[t] = "absent" /\ view[t] # "absent"}
           pending == {t \in Txs : old[t] = "pending"}
           confirmed == {t \in pending : view[t] = "confirmed"}
           before == pending \cup Vanishing(mem.news, w)
           gone == {t \in pending : view[t] = "absent"}
           mined == {t \in new : view[t] = "confirmed"}
<1>1. /\ mem.held \in [Wallets -> Views] /\ old \in Views
      /\ mem.news.vanishing \in Seq(VanishedEntries)
  BY DEF StateGood, States, PayloadOK, VanishingOK
<1>2. Vanishing(mem.news, w) \subseteq Txs
  <2>1. \A e \in ToSet(mem.news.vanishing) : e \in VanishedEntries
    BY <1>1 DEF ToSet
  <2> QED BY <2>1 DEF Vanishing, VanishedEntries
<1>3. /\ mv.new \in SetToSeqs(new) /\ mv.mined = mined /\ mv.confirmed \in SetToSeqs(confirmed)
      /\ mv.before \in SetToSeqs(before) /\ mv.gone \in SetToSeqs(gone)
  BY DEF Moves
<1>4. /\ new \in SUBSET Txs /\ confirmed \in SUBSET Txs /\ before \in SUBSET Txs
      /\ gone \in SUBSET Txs
  BY <1>2
<1>5. \A t \in Txs : t \in new <=> old[t] = "absent" /\ view[t] # "absent"
  OBVIOUS
<1>6. \A t \in Txs : /\ t \in confirmed => view[t] = "confirmed"
                     /\ t \in gone <=> old[t] = "pending" /\ view[t] = "absent"
  OBVIOUS
<1>7. /\ \A t \in mined : t \in Txs /\ view[t] = "confirmed"
      /\ \A t \in new : t \notin mined => view[t] # "confirmed"
  OBVIOUS
<1> HIDE DEF new, confirmed, before, gone, mined
<1>8. /\ mv.new \in Seq(Txs) /\ ToSet(mv.new) = new
      /\ \A i, j \in DOMAIN mv.new : mv.new[i] = mv.new[j] => i = j
  BY <1>3, <1>4, SeqsAre
<1>9. mv.confirmed \in Seq(Txs) /\ ToSet(mv.confirmed) = confirmed
  BY <1>3, <1>4, SeqsAre
<1>10. mv.before \in Seq(Txs) /\ ToSet(mv.before) = before
  BY <1>3, <1>4, SeqsAre
<1>11. mv.gone \in Seq(Txs) /\ ToSet(mv.gone) = gone
  BY <1>3, <1>4, SeqsAre
<1>12. ASSUME NEW x \in Wallets PROVE held[x] = IF x = w THEN view ELSE mem.held[x]
  BY <1>1
<1> HIDE DEF held
<1>13. ASSUME NEW t \in Txs
       PROVE  /\ <<w, t>> \in C <=> view[t] = "confirmed"
              /\ <<w, t>> \in H <=> old[t] # "absent"
              /\ <<w, t>> \in HeldIn(held) <=> view[t] # "absent"
  BY <1>12 DEF InBlocks, HeldIn
<1> HIDE DEF C
<1>14. ASSUME NEW t \in new, NEW o \in before, Conflict(t, o) PROVE <<w, o>> \notin C
  <2>1. t \in Txs /\ o \in Txs /\ view[t] # "absent"
    BY <1>4, <1>5
  <2>2. view[o] = "absent"
    BY <1>14, <2>1 DEF Consistent
  <2> QED BY <1>13, <2>1, <2>2
<1>15. MovesOK(mv, w, H, C)
  <2>1. \A t \in ToSet(mv.confirmed) : <<w, t>> \in C
    BY <1>4, <1>6, <1>9, <1>13
  <2>2. \A t \in ToSet(mv.new) : <<w, t>> \notin H
    BY <1>4, <1>5, <1>8, <1>13
  <2>3. /\ \A t \in mv.mined : <<w, t>> \in C
        /\ \A t \in ToSet(mv.new) : t \notin mv.mined => <<w, t>> \notin C
    BY <1>3, <1>4, <1>7, <1>8, <1>13
  <2>4. \A t \in ToSet(mv.new), o \in ToSet(mv.before) : Conflict(t, o) => <<w, o>> \notin C
    BY <1>8, <1>10, <1>14
  <2> HIDE DEF H
  <2> QED BY <1>8, <1>9, <1>10, <1>11, <2>1, <2>2, <2>3, <2>4 DEF MovesOK
<1>16. (H \cup {<<w, t>> : t \in ToSet(mv.new)}) \ {<<w, t>> : t \in ToSet(mv.gone)}
          \subseteq HeldIn(held)
  <2> SUFFICES ASSUME NEW x, x \in H \cup {<<w, t>> : t \in new},
                      x \notin {<<w, t>> : t \in gone}
               PROVE  x \in HeldIn(held)
    BY <1>8, <1>11
  <2>1. CASE x \in {<<w, t>> : t \in new}
    <3>1. PICK t \in new : x = <<w, t>>
      BY <2>1
    <3>2. t \in Txs /\ view[t] # "absent"
      BY <1>4, <1>5
    <3> QED BY <1>13, <3>1, <3>2
  <2>2. CASE x \in H
    <3>1. PICK y \in Wallets, t \in Txs : x = <<y, t>> /\ mem.held[y][t] # "absent"
      BY <2>2 DEF HeldIn
    <3>2. CASE y = w
      <4>1. t \notin gone /\ old[t] # "absent"
        BY <3>1, <3>2
      <4>2. old[t] \in Positions /\ view[t] \in Positions
        BY <1>1 DEF Views
      <4>3. old[t] = "confirmed" => view[t] = "confirmed"
        BY DEF Follows
      <4>4. view[t] # "absent"
        BY <1>6, <4>1, <4>2, <4>3 DEF Positions
      <4> QED BY <1>13, <3>1, <3>2, <4>4
    <3>3. CASE y # w
      <4>1. held[y][t] # "absent"
        BY <1>12, <3>1, <3>3
      <4> QED BY <3>1, <4>1 DEF HeldIn
    <3> QED BY <3>2, <3>3
  <2> QED BY <2>1, <2>2
<1>17. InBlocks(mem.held) \subseteq C
  <2> SUFFICES ASSUME NEW y \in Wallets, NEW t \in Txs, mem.held[y][t] = "confirmed"
               PROVE  <<y, t>> \in C
    BY DEF InBlocks
  <2>1. held[y][t] = "confirmed"
    BY <1>12 DEF Follows
  <2> QED BY <2>1 DEF C, InBlocks
<1> QED BY <1>15, <1>16, <1>17 DEF C, held

\* What a sync records is of what it leaves held.
LEMMA SyncRecords ==
  ASSUME ~Reorgs, NEW S, StateGood(mem, S), now \in Nat, NEW w \in mem.wallets, w \in Wallets,
         NEW view \in Views, Consistent(view), Follows(mem.held[w], view),
         NEW mv \in Moves(w, view)
  PROVE  LET W == mem.wallets
             H == HeldIn(mem.held)
             held == [mem.held EXCEPT ![w] = view]
             G == HeldIn(held)
             C == InBlocks(held)
         IN  /\ MovesOK(mv, w, H, C) /\ PayloadOK(mem.news, W, H, C, S)
             /\ PayloadOK(Record(mem.news, w, ~ mem.synced[w], mv, now), W, G, C, S)
<1> DEFINE W == mem.wallets
           H == HeldIn(mem.held)
           held == [mem.held EXCEPT ![w] = view]
           G == HeldIn(held)
           C == InBlocks(held)
           recorded == Record(mem.news, w, ~ mem.synced[w], mv, now)
<1>1. /\ mem \in States /\ mem.synced[w] \in BOOLEAN
      /\ PayloadOK(mem.news, W, H, InBlocks(mem.held), S)
  BY DEF StateGood, States
<1>2. /\ MovesOK(mv, w, H, C)
      /\ (H \cup {<<w, t>> : t \in ToSet(mv.new)}) \ {<<w, t>> : t \in ToSet(mv.gone)}
           \subseteq G
      /\ InBlocks(mem.held) \subseteq C
  BY MovesAre
<1>3. ASSUME ~mem.synced[w] PROVE H \subseteq G
  <2> SUFFICES ASSUME NEW y \in Wallets, NEW t \in Txs, mem.held[y][t] # "absent"
               PROVE  held[y][t] # "absent"
    BY DEF HeldIn
  <2>1. y # w
    BY <1>3 DEF StateGood
  <2>2. held[y] = mem.held[y]
    BY <1>1, <2>1 DEF States
  <2> QED BY <2>2
<1> HIDE DEF H, G, C, held
<1>4. PayloadOK(mem.news, W, H, C, S)
  BY <1>1, <1>2, MoreHeld
<1>5. PayloadOK(recorded, W, G, C, S)
  <2>1. CASE mem.synced[w]
    <3>1. recorded = Record(mem.news, w, FALSE, mv, now)
      BY <2>1
    <3> QED BY <1>2, <1>4, <3>1, RecordKeeps
  <2>2. CASE ~mem.synced[w]
    <3>1. recorded = Record(mem.news, w, TRUE, mv, now)
      BY <2>2
    <3>2. PayloadOK(recorded, W, H, C, S)
      BY <1>4, <3>1, FirstRecordKeeps
    <3> QED BY <1>3, <2>2, <3>2, MoreHeld
  <2> QED BY <1>1, <2>1, <2>2
<1> QED BY <1>2, <1>4, <1>5 DEF H, G, C, held

\* A sync leaves a good state.
LEMMA SyncGood ==
  ASSUME ~Reorgs, NEW S, StateGood(mem, S), now \in Nat, NEW w \in Wallets, Sync(w)
  PROVE  StateGood(mem', S)
<1>1. PICK view \in Views : /\ Consistent(view) /\ Follows(mem.held[w], view)
                            /\ \E reread, mv : /\ mv \in Moves(w, view)
                                               /\ mem' = SyncedState(w, view, reread, mv)
  BY DEF Sync
<1>2. PICK reread, mv : mv \in Moves(w, view) /\ mem' = SyncedState(w, view, reread, mv)
  BY <1>1
<1>3. w \in mem.wallets /\ Len(mem'.news.announced) <= MaxRecord
  BY DEF Sync
<1> DEFINE W == mem.wallets
           held == [mem.held EXCEPT ![w] = view]
           G == HeldIn(held)
           C == InBlocks(held)
           back == {t \in Vanishing(mem.news, w) : view[t] # "absent"}
           recorded == Record(mem.news, w, ~ mem.synced[w], mv, now)
           settled == Settle(recorded, w, back, reread, now)
<1>4. mem \in States
  BY DEF StateGood
<1>5. PayloadOK(recorded, W, G, C, S)
  BY <1>1, <1>2, <1>3, SyncRecords
<1>6. mem' = [mem EXCEPT !.news = settled, !.held[w] = view, !.synced[w] = TRUE,
                         !.imported[w] = ImportedAfter(w, view)]
  BY <1>2 DEF SyncedState
<1>7. ImportedAfter(w, view) \in Views
  <2>1. mem.imported \in [Wallets -> Views]
    BY <1>4 DEF States
  <2>2. \A t \in Txs : view[t] \in Positions /\ "absent" \in Positions
    BY DEF Views, Positions
  <2> QED BY <2>1, <2>2 DEF ImportedAfter, Views
<1> HIDE DEF G, C, held, back
<1> HIDE DEF recorded
<1>10. PayloadOK(settled, W, G, C, S)
  BY <1>3, <1>5, SettleKeeps
<1>11. settled \in Payload
  BY <1>10 DEF PayloadOK
<1> HIDE DEF settled
<1>12. /\ mem' \in States /\ mem'.news = settled /\ mem'.wallets = W /\ mem'.held = held
       /\ mem'.synced = [mem.synced EXCEPT ![w] = TRUE]
  BY <1>4, <1>6, <1>7, <1>11 DEF States, held
<1>13. PayloadOK(mem'.news, mem'.wallets, HeldIn(mem'.held), InBlocks(mem'.held), S)
  BY <1>10, <1>12 DEF G, C
<1>14. /\ Len(mem'.news.announced) + Len(mem'.news.unclaimed) <= ANNOUNCED_MAX
       /\ Recorded(mem'.news.announced, mem'.wallets, S)
  <2> DEFINE p == mem'.news
  <2>1. /\ Len(p.announced) \in Nat /\ Len(p.unclaimed) \in Nat /\ Len(p.unclaimed) <= UNCLAIMED_MAX
        /\ OnRecord(p.announced, mem'.wallets, S)
    BY <1>13 DEF PayloadOK, UnclaimedOK, AnnouncedOK
  <2>2. /\ MaxRecord \in Nat /\ UNCLAIMED_MAX \in Nat \ {0} /\ ANNOUNCED_MAX \in Nat
        /\ MaxRecord + UNCLAIMED_MAX <= ANNOUNCED_MAX
    BY NewsAssumption, FeedAssumption
  <2>3. Len(p.announced) + Len(p.unclaimed) <= ANNOUNCED_MAX /\ Len(p.announced) < ANNOUNCED_MAX
    <3> DEFINE a == Len(p.announced)
               u == Len(p.unclaimed)
    <3>1. a \in Nat /\ u \in Nat /\ u <= UNCLAIMED_MAX /\ a <= MaxRecord
      BY <1>3, <2>1
    <3> HIDE DEF a, u
    <3>2. a + u <= ANNOUNCED_MAX /\ a < ANNOUNCED_MAX
      BY <2>2, <3>1
    <3> QED BY <3>2 DEF a, u
  <2>4. Recorded(p.announced, mem'.wallets, S)
    BY <2>1, <2>2, <2>3 DEF OnRecord
  <2> QED BY <2>3, <2>4
<1>15. \A x \in Wallets : ~mem'.synced[x] => \A t \in Txs : mem'.held[x][t] = "absent"
  <2>1. mem.synced \in [Wallets -> BOOLEAN] /\ mem.held \in [Wallets -> Views]
    BY <1>4 DEF States
  <2>2. ASSUME NEW x \in Wallets, ~mem'.synced[x] PROVE x # w /\ ~mem.synced[x]
    BY <1>12, <2>1, <2>2
  <2>3. \A x \in Wallets : x # w => mem'.held[x] = mem.held[x]
    BY <1>12, <2>1 DEF held
  <2> QED BY <2>2, <2>3 DEF StateGood
<1> QED BY <1>12, <1>13, <1>14, <1>15 DEF StateGood

\* A removal leaves a good state.
LEMMA RemoveGood ==
  ASSUME NEW S, StateGood(mem, S), NEW w \in Wallets, RemoveWallet(w)
  PROVE  StateGood(mem', S)
<1> DEFINE W == mem.wallets
           H == HeldIn(mem.held)
           C == InBlocks(mem.held)
           held == [mem.held EXCEPT ![w] = Nothing]
           news == Purge(mem.news, w)
<1>1. /\ mem \in States /\ PayloadOK(mem.news, W, H, C, S) /\ Recorded(mem.news.announced, W, S)
      /\ Len(mem.news.announced) + Len(mem.news.unclaimed) <= ANNOUNCED_MAX
  BY DEF StateGood
<1>2. mem' = [mem EXCEPT !.wallets = @ \ {w}, !.news = news, !.held[w] = Nothing,
                         !.synced[w] = FALSE, !.imported[w] = Nothing]
  BY <1>1 DEF RemoveWallet, States
<1>3. Nothing \in Views
  BY DEF Nothing, Views, Positions
<1>4. Spared(w, H, HeldIn(held)) /\ Spared(w, C, InBlocks(held))
  BY <1>1 DEF HeldIn, InBlocks, States, Spared
<1> HIDE DEF H, C, held
<1>5. /\ PayloadOK(news, W \ {w}, HeldIn(held), InBlocks(held), S)
      /\ Recorded(news.announced, W \ {w}, S)
      /\ Len(news.announced) + Len(news.unclaimed) <= ANNOUNCED_MAX
  BY <1>1, <1>4, PurgeKeeps
<1>6. news \in Payload
  BY <1>5 DEF PayloadOK
<1> HIDE DEF news
<1>7. /\ mem' \in States /\ mem'.news = news /\ mem'.wallets = W \ {w} /\ mem'.held = held
      /\ mem'.synced = [mem.synced EXCEPT ![w] = FALSE]
  BY <1>1, <1>2, <1>3, <1>6 DEF States, held
<1>8. \A x \in Wallets : ~mem'.synced[x] => \A t \in Txs : mem'.held[x][t] = "absent"
  <2>1. mem.synced \in [Wallets -> BOOLEAN] /\ mem.held \in [Wallets -> Views]
    BY <1>1 DEF States
  <2>2. mem'.held[w] = Nothing
    BY <1>7, <2>1 DEF held
  <2>3. \A x \in Wallets : x # w => mem'.held[x] = mem.held[x] /\ mem'.synced[x] = mem.synced[x]
    BY <1>7, <2>1 DEF held
  <2> QED BY <2>2, <2>3 DEF StateGood, Nothing
<1> QED BY <1>5, <1>7, <1>8 DEF StateGood

\* A claim leaves a good state, what it handed out said.
LEMMA ClaimGood ==
  ASSUME NEW S, StateGood(mem, S), NEW w \in Wallets, NEW max \in Maxima, ClaimNews(w, max)
  PROVE  LET spoken == Claimed(mem.news, w, max, now) IN
         /\ w \in mem.wallets
         /\ StateGood(mem', S \cup SaidOf(spoken))
         /\ spoken \in Seq(RecordEntries) /\ Apart(spoken) /\ ArrivalsStand(spoken)
         /\ SpokenRight(spoken, HeldIn(mem.held), InBlocks(mem.held), S)
<1> DEFINE W == mem.wallets
           H == HeldIn(mem.held)
           C == InBlocks(mem.held)
           spoken == Claimed(mem.news, w, max, now)
           news == Claim(mem.news, w, max, now)
           S1 == S \cup SaidOf(spoken)
<1>1. /\ mem \in States /\ PayloadOK(mem.news, W, H, C, S) /\ Recorded(mem.news.announced, W, S)
      /\ Len(mem.news.announced) + Len(mem.news.unclaimed) <= ANNOUNCED_MAX
  BY DEF StateGood
<1>2. w \in W
  <2> DEFINE list == mem.news.unclaimed
             some == {e \in ToSet(list) : e.wallet = w /\ e.at + UNCLAIMED_FOR >= now}
  <2>1. list \in Seq(NewsEntries) /\ \A e \in ToSet(list) : e.wallet \in W
    BY <1>1 DEF PayloadOK, UnclaimedOK
  <2>2. Len(Only(list, some)) > 0
    BY DEF ClaimNews, Waiting
  <2>3. \A e \in some : e.wallet = w
    OBVIOUS
  <2> HIDE DEF some
  <2>4. Only(list, some) \in Seq(NewsEntries) /\ ToSet(Only(list, some)) = ToSet(list) \cap some
    BY <2>1, OnlyIs
  <2>5. Only(list, some) # << >>
    BY <2>2
  <2>6. Head(Only(list, some)) \in ToSet(list) \cap some
    BY <2>4, <2>5, HeadIs
  <2> QED BY <2>1, <2>3, <2>6
<1>3. max \in Nat
  BY FeedAssumption
<1>4. mem' = [mem EXCEPT !.news = news]
  BY DEF ClaimNews
<1> HIDE DEF H, C
<1>5. /\ spoken \in Seq(RecordEntries) /\ Apart(spoken) /\ ArrivalsStand(spoken)
      /\ SpokenRight(spoken, H, C, S)
      /\ PayloadOK(news, W, H, C, S1) /\ Recorded(news.announced, W, S1)
      /\ Len(news.announced) + Len(news.unclaimed) <= ANNOUNCED_MAX
  BY <1>1, <1>2, <1>3, ClaimKeeps
<1>6. news \in Payload
  BY <1>5 DEF PayloadOK
<1> HIDE DEF news, spoken, S1
<1>7. /\ mem' \in States /\ mem'.news = news /\ mem'.wallets = W /\ mem'.held = mem.held
      /\ mem'.synced = mem.synced
  BY <1>1, <1>4, <1>6 DEF States
<1>8. StateGood(mem', S1)
  BY <1>5, <1>7 DEF StateGood, H, C
<1> QED BY <1>2, <1>5, <1>8 DEF spoken, H, C, S1

\* What is handed out makes a list that says it right longer.
LEMMA SaidMore ==
  ASSUME NEW list \in Seq(RecordEntries), SaidRight(list), NEW spoken \in Seq(RecordEntries),
         Apart(spoken), ArrivalsStand(spoken), NEW H, NEW C, SpokenRight(spoken, H, C, SaidOf(list))
  PROVE  /\ SaidRight(list \o spoken) /\ list \o spoken \in Seq(RecordEntries)
         /\ SaidOf(list \o spoken) = SaidOf(list) \cup SaidOf(spoken)
<1> DEFINE n == Len(list)
           m == Len(spoken)
           both == list \o spoken
<1>1. /\ n \in Nat /\ m \in Nat /\ DOMAIN list = 1..n /\ DOMAIN spoken = 1..m
      /\ both \in Seq(RecordEntries) /\ DOMAIN both = 1..(n + m)
      /\ \A i \in 1..(n + m) : both[i] = IF i <= n THEN list[i] ELSE spoken[i - n]
  OBVIOUS
<1> HIDE DEF n, m, both
<1>2. ASSUME NEW i \in 1..n PROVE i \in 1..(n + m) /\ both[i] = list[i]
  BY <1>1
<1>3. ASSUME NEW i \in 1..m PROVE n + i \in 1..(n + m) /\ both[n + i] = spoken[i]
  <2>1. n + i \in 1..(n + m) /\ ~(n + i <= n) /\ (n + i) - n = i
    BY <1>1
  <2> QED BY <1>1, <2>1
<1>4. ASSUME NEW i \in 1..(n + m) PROVE i \in 1..n \/ \E k \in 1..m : i = n + k
  <2>1. CASE i <= n
    BY <1>1, <2>1
  <2>2. CASE ~(i <= n)
    <3>1. i - n \in 1..m /\ i = n + (i - n)
      BY <1>1, <2>2
    <3> QED BY <3>1
  <2> QED BY <2>1, <2>2
<1>5. ASSUME NEW i \in 1..n, NEW w, NEW t, NEW stage
      PROVE  Before(both, i, w, t, stage) <=> Before(list, i, w, t, stage)
  <2>1. \A j \in 1..(i - 1) : j \in 1..n
    BY <1>1
  <2>2. \A j \in 1..(i - 1) : both[j] = list[j]
    BY <1>2, <2>1
  <2> QED BY <2>2 DEF Before
<1>6. ASSUME NEW k \in 1..m, NEW w, NEW t, NEW stage, <<w, t, stage>> \in SaidOf(list)
      PROVE  Before(both, n + k, w, t, stage)
  <2>1. PICK j \in 1..n : <<w, t, stage>> = <<list[j].wallet, list[j].tx, list[j].stage>>
    BY <1>1, <1>6 DEF SaidOf
  <2>2. j \in 1..((n + k) - 1) /\ both[j] = list[j]
    BY <1>1, <1>2
  <2> QED BY <2>1, <2>2 DEF Before
<1>7. ASSUME NEW i \in 1..n
      PROVE  /\ ~Before(both, i, both[i].wallet, both[i].tx, both[i].stage)
             /\ both[i].stage = "Mempool" => ~Before(both, i, both[i].wallet, both[i].tx, "Confirmed")
             /\ both[i].stage = "Dropped" =>
                  /\ Before(both, i, both[i].wallet, both[i].tx, "Mempool")
                  /\ Net[both[i].wallet][both[i].tx] > 0
             /\ both[i].replaces # NONE =>
                  \E stage \in {"Mempool", "Confirmed"} :
                    Before(both, i, both[i].wallet, both[i].replaces, stage)
  BY <1>1, <1>2, <1>5 DEF SaidRight
<1>8. ASSUME NEW k \in 1..m
      PROVE  LET i == n + k IN
             /\ ~Before(both, i, both[i].wallet, both[i].tx, both[i].stage)
             /\ both[i].stage = "Mempool" => ~Before(both, i, both[i].wallet, both[i].tx, "Confirmed")
             /\ both[i].stage = "Dropped" =>
                  /\ Before(both, i, both[i].wallet, both[i].tx, "Mempool")
                  /\ Net[both[i].wallet][both[i].tx] > 0
             /\ both[i].replaces # NONE =>
                  \E stage \in {"Mempool", "Confirmed"} :
                    Before(both, i, both[i].wallet, both[i].replaces, stage)
  <2> DEFINE x == spoken[k]
  <2>1. both[n + k] = x
    BY <1>3
  <2>2. PICK e \in NewsEntries : x = Spoken(e) /\ NewsOK(e, H, C, SaidOf(list))
    BY <1>1 DEF SpokenRight
  <2>3. /\ <<x.wallet, x.tx, x.stage>> \notin SaidOf(list)
        /\ x.stage = "Mempool" => <<x.wallet, x.tx, "Confirmed">> \notin SaidOf(list)
    BY <1>1 DEF SpokenRight
  <2>4. /\ x.wallet = e.wallet /\ x.tx = e.tx /\ x.stage = e.stage /\ x.replaces = e.replaces
        /\ e.stage \in Stages
    BY <2>2 DEF Spoken, NewsEntries
  <2>5. ~Before(both, n + k, x.wallet, x.tx, x.stage)
    <3> SUFFICES ASSUME NEW j \in 1..((n + k) - 1),
                        both[j].wallet = x.wallet, both[j].tx = x.tx, both[j].stage = x.stage
                 PROVE  FALSE
      BY DEF Before
    <3>1. j \in 1..(n + m) /\ j # n + k
      BY <1>1
    <3>2. CASE j \in 1..n
      <4>1. both[j] = list[j] /\ j \in DOMAIN list
        BY <1>1, <1>2, <3>2
      <4> QED BY <2>3, <4>1 DEF SaidOf
    <3>3. CASE \E l \in 1..m : j = n + l
      <4>1. PICK l \in 1..m : j = n + l
        BY <3>3
      <4>2. both[j] = spoken[l] /\ l # k
        BY <1>3, <3>1, <4>1
      <4>3. SameNews(spoken[l], spoken[k])
        BY <4>2 DEF SameNews
      <4> QED BY <1>1, <4>2, <4>3 DEF Apart
    <3> QED BY <1>4, <3>1, <3>2, <3>3
  <2>6. ASSUME x.stage = "Mempool" PROVE ~Before(both, n + k, x.wallet, x.tx, "Confirmed")
    <3> SUFFICES ASSUME NEW j \in 1..((n + k) - 1),
                        both[j].wallet = x.wallet, both[j].tx = x.tx, both[j].stage = "Confirmed"
                 PROVE  FALSE
      BY DEF Before
    <3>1. j \in 1..(n + m)
      BY <1>1
    <3>2. CASE j \in 1..n
      <4>1. both[j] = list[j] /\ j \in DOMAIN list
        BY <1>1, <1>2, <3>2
      <4> QED BY <2>3, <2>6, <4>1 DEF SaidOf
    <3>3. CASE \E l \in 1..m : j = n + l
      <4>1. PICK l \in 1..m : j = n + l
        BY <3>3
      <4>2. both[j] = spoken[l] /\ spoken[l] \in ToSet(spoken) /\ x \in ToSet(spoken)
        BY <1>1, <1>3, <4>1 DEF ToSet
      <4> QED BY <2>6, <4>2 DEF ArrivalsStand
    <3> QED BY <1>4, <3>1, <3>2, <3>3
  <2> HIDE DEF x
  <2>7. ASSUME x.stage = "Dropped"
        PROVE  Before(both, n + k, x.wallet, x.tx, "Mempool") /\ Net[x.wallet][x.tx] > 0
    <3>1. <<x.wallet, x.tx, "Mempool">> \in SaidOf(list) /\ Net[x.wallet][x.tx] > 0
      BY <2>2, <2>4, <2>7 DEF NewsOK
    <3> QED BY <1>6, <3>1
  <2>8. ASSUME x.replaces # NONE
        PROVE  \E stage \in {"Mempool", "Confirmed"} :
                 Before(both, n + k, x.wallet, x.replaces, stage)
    <3>1. WasSaid(SaidOf(list), x.wallet, x.replaces)
      BY <2>2, <2>4, <2>8 DEF NewsOK, Stages
    <3> QED BY <1>6, <3>1 DEF WasSaid
  <2> QED BY <2>1, <2>5, <2>6, <2>7, <2>8
<1>9. SaidRight(both)
  <2> SUFFICES ASSUME NEW i \in 1..(n + m)
               PROVE  /\ ~Before(both, i, both[i].wallet, both[i].tx, both[i].stage)
                      /\ both[i].stage = "Mempool" => ~Before(both, i, both[i].wallet, both[i].tx, "Confirmed")
                      /\ both[i].stage = "Dropped" =>
                           /\ Before(both, i, both[i].wallet, both[i].tx, "Mempool")
                           /\ Net[both[i].wallet][both[i].tx] > 0
                      /\ both[i].replaces # NONE =>
                           \E stage \in {"Mempool", "Confirmed"} :
                             Before(both, i, both[i].wallet, both[i].replaces, stage)
    BY <1>1 DEF SaidRight
  <2>1. CASE i \in 1..n
    BY <1>7, <2>1
  <2>2. CASE \E k \in 1..m : i = n + k
    BY <1>8, <2>2
  <2> QED BY <1>4, <2>1, <2>2
<1>10. SaidOf(both) = SaidOf(list) \cup SaidOf(spoken)
  <2>1. ASSUME NEW y \in SaidOf(both) PROVE y \in SaidOf(list) \cup SaidOf(spoken)
    <3>1. PICK i \in 1..(n + m) : y = <<both[i].wallet, both[i].tx, both[i].stage>>
      BY <1>1 DEF SaidOf
    <3>2. CASE i \in 1..n
      BY <1>1, <1>2, <3>1, <3>2 DEF SaidOf
    <3>3. CASE \E k \in 1..m : i = n + k
      BY <1>1, <1>3, <3>1, <3>3 DEF SaidOf
    <3> QED BY <1>4, <3>2, <3>3
  <2>2. SaidOf(list) \subseteq SaidOf(both)
    BY <1>1, <1>2 DEF SaidOf
  <2>3. SaidOf(spoken) \subseteq SaidOf(both)
    BY <1>1, <1>3 DEF SaidOf
  <2> QED BY <2>1, <2>2, <2>3
<1> QED BY <1>1, <1>9, <1>10 DEF both

\* It starts with nothing said.
LEMMA NewsInit == Init => NewsIInv
<1> SUFFICES ASSUME Init PROVE NewsIInv
  OBVIOUS
<1> DEFINE e == EmptyPayload
<1>1. /\ e.unclaimed = << >> /\ e.announced = << >> /\ e.vanishing = << >> /\ e.forgotten = {}
      /\ e \in Payload
  BY DEF EmptyPayload, Payload
<1>2. ToSet(<< >>) = {} /\ Apart(<< >>) /\ Len(<< >>) = 0 /\ \A T : << >> \in Seq(T)
  BY DEF ToSet, Apart
<1>3. SaidOf(<< >>) = {} /\ SaidRight(<< >>)
  BY DEF SaidOf, SaidRight
<1>4. Nothing \in Views
  BY DEF Nothing, Views, Positions
<1>5. InitialState \in States
  <2> HIDE DEF e
  <2> QED BY <1>1, <1>4 DEF InitialState, States, e
<1>6. /\ InitialState.news = e /\ InitialState.wallets = Wallets
      /\ InitialState.synced = [w \in Wallets |-> FALSE]
      /\ InitialState.held = [w \in Wallets |-> Nothing]
  BY DEF InitialState
<1>7. \A W, H, C : PayloadOK(e, W, H, C, {}) /\ Recorded(e.announced, W, {})
  <2> SUFFICES ASSUME NEW W, NEW H, NEW C
               PROVE  PayloadOK(e, W, H, C, {}) /\ Recorded(e.announced, W, {})
    OBVIOUS
  <2> HIDE DEF e
  <2>1. 0 <= UNCLAIMED_MAX
    BY NewsAssumption
  <2>2. UnclaimedOK(e.unclaimed, W, H, C, {})
    BY <1>1, <1>2, <2>1 DEF UnclaimedOK, ArrivalsStand
  <2>3. AnnouncedOK(e.announced, W, C, {}) /\ VanishingOK(e.vanishing, W, {})
    BY <1>1, <1>2 DEF AnnouncedOK, VanishingOK
  <2>4. Recorded(e.announced, W, {})
    BY DEF Recorded
  <2> QED BY <1>1, <2>2, <2>3, <2>4 DEF PayloadOK, OnRecord
<1>8. Len(e.announced) + Len(e.unclaimed) <= ANNOUNCED_MAX
  BY <1>1, <1>2, NewsAssumption
<1> HIDE DEF e
<1>9. StateGood(InitialState, {})
  <2>1. \A w \in Wallets : \A t \in Txs : InitialState.held[w][t] = "absent"
    BY <1>6 DEF Nothing
  <2>2. PayloadOK(e, Wallets, HeldIn(InitialState.held), InBlocks(InitialState.held), {})
        /\ Recorded(e.announced, Wallets, {})
    BY <1>7
  <2> QED BY <1>5, <1>6, <1>8, <2>1, <2>2 DEF StateGood
<1>10. SaidNews = {} /\ SaidRight(said) /\ said \in Seq(RecordEntries)
  BY <1>2, <1>3 DEF Init, SaidNews
<1>11. TypeOK
  BY <1>5, <1>10, FeedAssumption DEF Init, TypeOK, RecordEntries
<1> QED BY <1>9, <1>10, <1>11 DEF NewsIInv, Init

\* Every step keeps it, while blocks stay.
LEMMA NewsNext ==
  ASSUME ~Reorgs, NewsIInv, [Next]_vars
  PROVE  NewsIInv'
<1> DEFINE S == SaidNews
<1>1. /\ StateGood(mem, S) /\ StateGood(disk, S) /\ SaidRight(said) /\ S = SaidOf(said)
      /\ said \in Seq(RecordEntries) /\ now \in 0..MaxNow /\ now \in Nat /\ listed \subseteq Txs
  BY FeedAssumption DEF NewsIInv, TypeOK, RecordEntries, SaidNews
<1>2. ASSUME said' = said, StateGood(mem', S), StateGood(disk', S), now' \in 0..MaxNow,
             listed' \subseteq Txs
      PROVE  NewsIInv'
  <2>1. SaidNews' = S
    BY <1>2 DEF SaidNews
  <2>2. TypeOK'
    BY <1>1, <1>2 DEF TypeOK, StateGood, RecordEntries
  <2> HIDE DEF S
  <2> QED BY <1>1, <1>2, <2>1, <2>2 DEF NewsIInv
<1> HIDE DEF S
<1>3. ASSUME NEW w \in Wallets, Sync(w) PROVE NewsIInv'
  <2>1. StateGood(mem', S)
    BY <1>1, <1>3, SyncGood
  <2>2. /\ said' = said /\ now' = now /\ disk' \in {disk, mem'} /\ listed' \subseteq Txs
    BY <1>1, <1>3 DEF Sync
  <2> QED BY <1>1, <1>2, <2>1, <2>2
<1>4. ASSUME NEW w \in Wallets, NEW max \in Maxima, ClaimNews(w, max) PROVE NewsIInv'
  <2> DEFINE spoken == Claimed(mem.news, w, max, now)
  <2>1. /\ StateGood(mem', S \cup SaidOf(spoken)) /\ spoken \in Seq(RecordEntries)
        /\ Apart(spoken) /\ ArrivalsStand(spoken)
        /\ SpokenRight(spoken, HeldIn(mem.held), InBlocks(mem.held), S)
    BY <1>1, <1>4, ClaimGood
  <2>2. said' = said \o spoken /\ disk' = mem' /\ now' = now /\ listed' = listed
    BY <1>4 DEF ClaimNews
  <2> HIDE DEF spoken
  <2>3. /\ SaidRight(said \o spoken) /\ said \o spoken \in Seq(RecordEntries)
        /\ SaidOf(said \o spoken) = SaidOf(said) \cup SaidOf(spoken)
    BY <1>1, <2>1, SaidMore
  <2>4. SaidNews' = S \cup SaidOf(spoken)
    BY <1>1, <2>2, <2>3 DEF SaidNews
  <2>5. TypeOK'
    BY <1>1, <2>1, <2>2, <2>3 DEF TypeOK, StateGood, RecordEntries
  <2> QED BY <2>1, <2>2, <2>3, <2>4, <2>5 DEF NewsIInv
<1>5. ASSUME NEW w \in Wallets, RemoveWallet(w) PROVE NewsIInv'
  <2>1. StateGood(mem', S)
    BY <1>1, <1>5, RemoveGood
  <2>2. said' = said /\ now' = now /\ disk' = mem' /\ listed' = listed
    BY <1>5 DEF RemoveWallet
  <2> QED BY <1>1, <1>2, <2>1, <2>2
<1>6. CASE Restart
  BY <1>1, <1>2, <1>6 DEF Restart
<1>7. CASE Tick
  BY <1>1, <1>2, <1>7 DEF Tick
<1>8. CASE UNCHANGED vars
  BY <1>1, <1>2, <1>8 DEF vars
<1> QED BY <1>3, <1>4, <1>5, <1>6, <1>7, <1>8 DEF Next

\* The properties follow.
LEMMA NewsImplies == NewsIInv => SaidOnce /\ NewsInv /\ NoArrivalAfterConfirmation
<1> SUFFICES ASSUME NewsIInv PROVE SaidOnce /\ NewsInv /\ NoArrivalAfterConfirmation
  OBVIOUS
<1>1. SaidRight(said) /\ TypeOK /\ StateGood(mem, SaidNews) /\ StateGood(disk, SaidNews)
  BY DEF NewsIInv
<1>2. SaidOnce /\ DroppedTakesBack /\ ReplacesWasSaid /\ NoArrivalAfterConfirmation
  BY <1>1 DEF SaidRight, Before, SaidOnce, DroppedTakesBack, ReplacesWasSaid,
              NoArrivalAfterConfirmation, SaidBefore
<1>3. ASSUME NEW state, StateGood(state, SaidNews)
      PROVE  \A e \in ToSet(state.news.unclaimed) \cup ToSet(state.news.announced)
                        \cup ToSet(state.news.vanishing) : e.wallet \in state.wallets
  BY <1>3 DEF StateGood, PayloadOK, UnclaimedOK, AnnouncedOK, VanishingOK
<1>4. NothingOfRemoved
  BY <1>1, <1>3 DEF NothingOfRemoved
<1> QED BY <1>1, <1>2, <1>4 DEF NewsInv

\* While blocks stay, nothing is handed out twice for one wallet at one stage,
\* whichever syncs, claims, failing saves, restarts, removals and clocks
\* (SaidOnce).
THEOREM SaidOnceHolds ==
  ASSUME ~Reorgs
  PROVE  Spec => []SaidOnce
<1>1. NewsIInv /\ [Next]_vars => NewsIInv'
  BY NewsNext
<1> QED BY <1>1, NewsInit, NewsImplies, PTL DEF Spec

\* While blocks stay, what is said dropped was said to come, under that txid,
\* what is said to be replaced was said, and nothing is kept of a wallet that
\* was removed (NewsInv).
THEOREM NewsHolds ==
  ASSUME ~Reorgs
  PROVE  Spec => []NewsInv
<1>1. NewsIInv /\ [Next]_vars => NewsIInv'
  BY NewsNext
<1> QED BY <1>1, NewsInit, NewsImplies, PTL DEF Spec

\* While blocks stay, nobody is told a transaction is pending after being told
\* it confirmed: neither by two claims nor within one (NoArrivalAfterConfirmation).
THEOREM NoArrivalHolds ==
  ASSUME ~Reorgs
  PROVE  Spec => []NoArrivalAfterConfirmation
<1>1. NewsIInv /\ [Next]_vars => NewsIInv'
  BY NewsNext
<1> QED BY <1>1, NewsInit, NewsImplies, PTL DEF Spec

-----------------------------------------------------------------------------
(* What the wallet holds is not swallowed.                                 *)

\* The arrival or the confirmation of t was said, waits or was forgotten; a
\* confirmation covers the arrival.
Aware(p, x, t, stage) ==
  \/ Known(p, x, t, "Confirmed")
  \/ stage = "Mempool" /\ Known(p, x, t, "Mempool")

\* Or the record is full, and what it held may be lost.
Heard(p, x, t, stage) == Len(p.announced) >= ANNOUNCED_MAX \/ Aware(p, x, t, stage)

\* What was heard in p is in q, but for the pairs of X.
Passes(p, q, X) ==
  \A x, t, stage : <<x, t>> \notin X /\ Heard(p, x, t, stage) => Heard(q, x, t, stage)

LEMMA PassesOn ==
  ASSUME NEW p, NEW q, NEW r, NEW X, Passes(p, q, X), Passes(q, r, X)
  PROVE  Passes(p, r, X)
BY DEF Passes

LEMMA PassesLess ==
  ASSUME NEW p, NEW q, NEW X, NEW Y, Passes(p, q, X), X \subseteq Y
  PROVE  Passes(p, q, Y)
BY DEF Passes

\* A payload that has the record of another, and what waited or was forgotten,
\* but for the arrivals of X.
Carries(p, q, X) ==
  /\ ToSet(p.announced) \subseteq ToSet(q.announced)
  /\ p.forgotten \subseteq q.forgotten
  /\ \A e \in ToSet(p.unclaimed) :
       \/ e \in ToSet(q.unclaimed)
       \/ <<e.wallet, e.tx, e.stage>> \in q.forgotten
       \/ e.stage = "Mempool" /\ <<e.wallet, e.tx>> \in X

LEMMA CarriesAware ==
  ASSUME NEW p, NEW q, NEW X, Carries(p, q, X), NEW x, NEW t, NEW stage,
         Aware(p, x, t, stage), <<x, t>> \notin X
  PROVE  Aware(q, x, t, stage)
<1> SUFFICES ASSUME NEW s \in {"Confirmed", "Mempool"}, Known(p, x, t, s) PROVE Known(q, x, t, s)
  BY DEF Aware
<1>1. CASE <<x, t, s>> \in p.forgotten
  BY <1>1 DEF Carries, Known
<1>2. CASE Told(p, x, t, s)
  <2>1. Told(q, x, t, s)
    BY <1>2 DEF Carries, Told, AnnouncedAs, As
  <2> QED BY <2>1 DEF Known
<1>3. CASE WaitingAs(p, x, t, s)
  <2>1. PICK e \in ToSet(p.unclaimed) : e.wallet = x /\ e.tx = t /\ e.stage = s
    BY <1>3 DEF WaitingAs, As
  <2>2. e \in ToSet(q.unclaimed) \/ <<x, t, s>> \in q.forgotten
    BY <2>1 DEF Carries
  <2> QED BY <2>1, <2>2 DEF Known, WaitingAs, As
<1> QED BY <1>1, <1>2, <1>3 DEF Known

LEMMA CarriesPasses ==
  ASSUME NEW p, NEW q, NEW X, Carries(p, q, X),
         Len(p.announced) >= ANNOUNCED_MAX => Len(q.announced) >= ANNOUNCED_MAX
  PROVE  Passes(p, q, X)
BY CarriesAware DEF Passes, Heard

\* What a list shortened loses of what waits is noted.
LEMMA ForgetCarries ==
  ASSUME NEW p \in Payload, NEW kept
  PROVE  /\ Forget(p, kept).announced = p.announced /\ Forget(p, kept).unclaimed = kept
         /\ p.forgotten \subseteq Forget(p, kept).forgotten
         /\ \A e \in ToSet(p.unclaimed) :
              e \in ToSet(kept) \/ <<e.wallet, e.tx, e.stage>> \in Forget(p, kept).forgotten
<1> DEFINE lost == {<<e.wallet, e.tx, e.stage>> : e \in ToSet(p.unclaimed) \ ToSet(kept)}
<1>1. \A e \in ToSet(p.unclaimed) : e \in ToSet(kept) \/ <<e.wallet, e.tx, e.stage>> \in lost
  OBVIOUS
<1> HIDE DEF lost
<1>2. Forget(p, kept) = [p EXCEPT !.unclaimed = kept, !.forgotten = @ \cup lost]
  BY DEF Forget, lost
<1>3. /\ Forget(p, kept).announced = p.announced /\ Forget(p, kept).unclaimed = kept
      /\ Forget(p, kept).forgotten = p.forgotten \cup lost
  BY <1>2 DEF Payload
<1> QED BY <1>1, <1>3

LEMMA ExpirePasses ==
  ASSUME NEW p \in Payload, NEW n
  PROVE  Carries(p, Expire(p, n), {}) /\ Expire(p, n).announced = p.announced
<1> DEFINE less == Only(p.unclaimed, {e \in ToSet(p.unclaimed) : e.at + UNCLAIMED_FOR >= n})
<1>1. Expire(p, n) = Forget(p, less)
  BY DEF Expire
<1> HIDE DEF less
<1> QED BY <1>1, ForgetCarries DEF Carries

LEMMA UnsayPasses ==
  ASSUME NEW p \in Payload, NEW w, NEW t
  PROVE  /\ Carries(p, UnsayArrival(p, w, t), {<<w, t>>})
         /\ UnsayArrival(p, w, t).announced = p.announced
<1> DEFINE some == ToSet(p.unclaimed) \ As(p.unclaimed, w, t, "Mempool")
           less == Only(p.unclaimed, some)
           q == UnsayArrival(p, w, t)
<1>1. p.unclaimed \in Seq(NewsEntries)
  BY DEF Payload, NewsEntries
<1>2. \A e \in ToSet(p.unclaimed) : e \in some \/ (e.stage = "Mempool" /\ <<e.wallet, e.tx>> = <<w, t>>)
  BY DEF As
<1>3. q = [p EXCEPT !.unclaimed = less]
  BY DEF UnsayArrival
<1> HIDE DEF some
<1>4. ToSet(less) = ToSet(p.unclaimed) \cap some
  BY <1>1, OnlyIs
<1> HIDE DEF less, q
<1>5. q.announced = p.announced /\ q.forgotten = p.forgotten /\ q.unclaimed = less
  BY <1>3 DEF Payload
<1>6. Carries(p, q, {<<w, t>>})
  BY <1>2, <1>4, <1>5 DEF Carries
<1> QED BY <1>5, <1>6 DEF q

\* News pushed is heard, and what was is still.
LEMMA PushPasses ==
  ASSUME NEW p \in Payload, NEW w, NEW t, NEW stage, NEW replaces, NEW n
  PROVE  LET q == Push(p, w, t, stage, replaces, n) IN
         /\ Passes(p, q, {})
         /\ stage \in {"Mempool", "Confirmed"} => Heard(q, w, t, stage)
<1> DEFINE i == Find(p.unclaimed, As(p.unclaimed, w, t, "Mempool"))
           carried == IF stage = "Confirmed" /\ i # 0 /\ replaces = NONE
                      THEN p.unclaimed[i].replaces ELSE replaces
           q == IF stage = "Confirmed" THEN UnsayArrival(p, w, t) ELSE p
           x == [wallet |-> w, tx |-> t, stage |-> stage, replaces |-> carried, at |-> n]
           longer == [q EXCEPT !.unclaimed = Append(@, x)]
           kept == KeepLast(longer.unclaimed, UNCLAIMED_MAX)
           heard == \/ Told(p, w, t, stage)
                    \/ WaitingAs(p, w, t, stage)
                    \/ stage = "Mempool" /\ WaitingAs(p, w, t, "Confirmed")
           r == Push(p, w, t, stage, replaces, n)
<1>1. CASE heard
  <2>1. r = p
    BY <1>1 DEF Push
  <2>2. stage \in {"Mempool", "Confirmed"} => Aware(p, w, t, stage)
    BY <1>1 DEF Aware, Known
  <2> QED BY <2>1, <2>2 DEF Passes, Heard
<1>2. CASE ~heard
  <2>1. r = Forget(longer, kept)
    BY <1>2 DEF Push
  <2>2. /\ q \in Payload /\ q.announced = p.announced /\ p.forgotten \subseteq q.forgotten
        /\ \A e \in ToSet(p.unclaimed) :
             \/ e \in ToSet(q.unclaimed)
             \/ <<e.wallet, e.tx, e.stage>> \in q.forgotten
             \/ stage = "Confirmed" /\ e.wallet = w /\ e.tx = t
    <3>1. CASE stage = "Confirmed"
      <4>1. UnsayArrival(p, w, t) \in Payload
        <5> DEFINE less == Only(p.unclaimed, ToSet(p.unclaimed) \ As(p.unclaimed, w, t, "Mempool"))
        <5>1. p.unclaimed \in Seq(NewsEntries)
          BY DEF Payload, NewsEntries
        <5>2. less \in Seq(NewsEntries)
          BY <5>1, OnlyIs
        <5>3. UnsayArrival(p, w, t) = [p EXCEPT !.unclaimed = less]
          BY DEF UnsayArrival
        <5> HIDE DEF less
        <5> QED BY <5>2, <5>3, WithUnclaimed
      <4>2. /\ Carries(p, UnsayArrival(p, w, t), {<<w, t>>})
            /\ UnsayArrival(p, w, t).announced = p.announced
        BY UnsayPasses
      <4> QED BY <3>1, <4>1, <4>2 DEF Carries
    <3>2. CASE stage # "Confirmed"
      BY <3>2
    <3> QED BY <3>1, <3>2
  <2>3. x.wallet = w /\ x.tx = t /\ x.stage = stage
    OBVIOUS
  <2> HIDE DEF q, x
  <2>4. ToSet(Append(q.unclaimed, x)) = ToSet(q.unclaimed) \cup {x}
    <3> DEFINE T == NewsEntries \cup {x}
    <3>1. q.unclaimed \in Seq(NewsEntries)
      BY <2>2 DEF Payload, NewsEntries
    <3>2. q.unclaimed \in Seq(T) /\ x \in T
      BY <3>1
    <3> HIDE DEF T
    <3> QED BY <3>2, AppendIs
  <2>5. /\ longer.unclaimed = Append(q.unclaimed, x) /\ longer.announced = q.announced
        /\ longer.forgotten = q.forgotten
    BY <2>2 DEF Payload
  <2>6. /\ r.announced = longer.announced /\ r.unclaimed = kept
        /\ longer.forgotten \subseteq r.forgotten
        /\ \A e \in ToSet(longer.unclaimed) :
             e \in ToSet(kept) \/ <<e.wallet, e.tx, e.stage>> \in r.forgotten
    <3> DEFINE lost == {<<e.wallet, e.tx, e.stage>> : e \in ToSet(longer.unclaimed) \ ToSet(kept)}
    <3>1. \A e \in ToSet(longer.unclaimed) :
            e \in ToSet(kept) \/ <<e.wallet, e.tx, e.stage>> \in lost
      OBVIOUS
    <3> HIDE DEF lost
    <3>2. r = [longer EXCEPT !.unclaimed = kept, !.forgotten = @ \cup lost]
      BY <2>1 DEF Forget, lost
    <3>3. DOMAIN longer = {"unclaimed", "announced", "vanishing", "forgotten"}
      BY <2>2 DEF Payload
    <3> HIDE DEF longer, kept, r
    <3>4. /\ r.announced = longer.announced /\ r.unclaimed = kept
          /\ r.forgotten = longer.forgotten \cup lost
      BY <3>2, <3>3
    <3> QED BY <3>1, <3>4
  <2> HIDE DEF longer, kept, r
  <2>7. Known(r, w, t, stage)
    <3>1. x \in ToSet(kept) \/ <<w, t, stage>> \in r.forgotten
      BY <2>3, <2>4, <2>5, <2>6
    <3> QED BY <2>3, <2>6, <3>1 DEF Known, WaitingAs, As
  <2>8. stage # "Confirmed" => Carries(p, r, {})
    BY <2>2, <2>4, <2>5, <2>6 DEF Carries
  <2>9. ASSUME NEW y, NEW u, NEW s, Aware(p, y, u, s) PROVE Aware(r, y, u, s)
    <3>1. CASE stage # "Confirmed"
      <4> DEFINE none == {}
      <4>1. Carries(p, r, none) /\ <<y, u>> \notin none
        BY <2>8, <3>1
      <4> HIDE DEF none
      <4> QED BY <2>9, <4>1, CarriesAware
    <3>2. CASE stage = "Confirmed" /\ <<y, u>> = <<w, t>>
      BY <2>7, <3>2 DEF Aware
    <3>3. CASE stage = "Confirmed" /\ <<y, u>> # <<w, t>>
      <4>1. ASSUME NEW e \in ToSet(p.unclaimed), ~(e.wallet = w /\ e.tx = t)
            PROVE  e \in ToSet(r.unclaimed) \/ <<e.wallet, e.tx, e.stage>> \in r.forgotten
        BY <2>2, <2>4, <2>5, <2>6, <4>1
      <4>2. ToSet(p.announced) \subseteq ToSet(r.announced) /\ p.forgotten \subseteq r.forgotten
        BY <2>2, <2>5, <2>6
      <4>3. ASSUME NEW z, Known(p, y, u, z) PROVE Known(r, y, u, z)
        <5>1. CASE WaitingAs(p, y, u, z)
          <6>1. PICK e \in ToSet(p.unclaimed) : e.wallet = y /\ e.tx = u /\ e.stage = z
            BY <5>1 DEF WaitingAs, As
          <6>2. e \in ToSet(r.unclaimed) \/ <<y, u, z>> \in r.forgotten
            BY <3>3, <4>1, <6>1
          <6> QED BY <6>1, <6>2 DEF Known, WaitingAs, As
        <5>2. CASE Told(p, y, u, z)
          <6>1. Told(r, y, u, z)
            BY <4>2, <5>2 DEF Told, AnnouncedAs, As
          <6> QED BY <6>1 DEF Known
        <5>3. CASE <<y, u, z>> \in p.forgotten
          BY <4>2, <5>3 DEF Known
        <5> QED BY <4>3, <5>1, <5>2, <5>3 DEF Known
      <4> QED BY <2>9, <4>3 DEF Aware
    <3> QED BY <3>1, <3>2, <3>3
  <2>10. r.announced = p.announced
    BY <2>2, <2>5, <2>6
  <2>11. Passes(p, r, {})
    BY <2>9, <2>10 DEF Passes, Heard
  <2>12. stage \in {"Mempool", "Confirmed"} => Heard(r, w, t, stage)
    BY <2>7 DEF Heard, Aware
  <2> QED BY <2>11, <2>12 DEF r
<1> QED BY <1>1, <1>2

\* One more on record is heard, and what was is still, or the record is full.
LEMMA RememberPasses ==
  ASSUME NEW p \in Payload, NEW e
  PROVE  LET q == Remember(p, <<e>>) IN
         /\ Passes(p, q, {})
         /\ e.stage = "Mempool" => Heard(q, e.wallet, e.tx, "Mempool")
<1> DEFINE T == RecordEntries \cup {e}
           both == Append(p.announced, e)
           kept == KeepLast(both, ANNOUNCED_MAX)
           q == Remember(p, <<e>>)
<1>1. p.announced \in Seq(RecordEntries) /\ Len(p.announced) \in Nat
  BY DEF Payload, RecordEntries
<1>2. p.announced \o <<e>> = both
  BY <1>1
<1>3. ANNOUNCED_MAX \in Nat
  BY NewsAssumption
<1>4. q = [p EXCEPT !.announced = kept]
  BY <1>2 DEF Remember
<1>5. /\ both \in Seq(T) /\ Len(both) = Len(p.announced) + 1
      /\ ToSet(both) = ToSet(p.announced) \cup {e}
  <2>1. RecordEntries \subseteq T /\ e \in T
    OBVIOUS
  <2> HIDE DEF T
  <2>2. p.announced \in Seq(T)
    BY <1>1, <2>1
  <2> QED BY <2>1, <2>2, AppendIs
<1> HIDE DEF both
<1>6. /\ Len(both) <= ANNOUNCED_MAX => kept = both
      /\ Len(both) > ANNOUNCED_MAX => Len(kept) = ANNOUNCED_MAX
  BY <1>3, <1>5, KeepLastIs
<1> HIDE DEF kept, q
<1>7. q.announced = kept /\ q.unclaimed = p.unclaimed /\ q.forgotten = p.forgotten
  BY <1>4 DEF Payload
<1>8. CASE Len(both) > ANNOUNCED_MAX
  <2>1. Len(q.announced) >= ANNOUNCED_MAX
    BY <1>3, <1>6, <1>7, <1>8
  <2> QED BY <2>1 DEF Passes, Heard, q
<1>9. CASE Len(both) <= ANNOUNCED_MAX
  <2>1. q.announced = both
    BY <1>6, <1>7, <1>9
  <2>2. Carries(p, q, {})
    BY <1>5, <1>7, <2>1 DEF Carries
  <2>3. Len(p.announced) >= ANNOUNCED_MAX => Len(q.announced) >= ANNOUNCED_MAX
    BY <1>1, <1>3, <1>5, <2>1
  <2>4. Passes(p, q, {})
    BY <2>2, <2>3, CarriesPasses
  <2>5. e.stage = "Mempool" => Aware(q, e.wallet, e.tx, "Mempool")
    BY <1>5, <2>1 DEF Aware, Known, Told, AnnouncedAs, As
  <2> QED BY <2>4, <2>5 DEF Heard, q
<1>10. Len(both) > ANNOUNCED_MAX \/ Len(both) <= ANNOUNCED_MAX
  BY <1>1, <1>3, <1>5
<1> QED BY <1>8, <1>9, <1>10

\* t is heard of in the place of o.
LEMMA ReplacePasses ==
  ASSUME NEW p \in Payload, NEW w, NEW o, NEW t
  PROVE  LET q == Replace(p, w, o, t) IN
         Passes(p, q, {<<w, o>>}) /\ Heard(q, w, t, "Mempool")
<1> DEFINE list == p.unclaimed
           i == Find(list, As(list, w, o, "Mempool"))
           q == Replace(p, w, o, t)
<1>1. list \in Seq(NewsEntries)
  BY DEF Payload, NewsEntries
<1>2. \/ i = 0
      \/ i \in DOMAIN list /\ i # 0 /\ list[i] \in As(list, w, o, "Mempool")
  BY <1>1, FindIs
<1>3. CASE i # 0
  <2> DEFINE more == [list EXCEPT ![i].tx = t]
  <2>1. q = [p EXCEPT !.unclaimed[i].tx = t]
    BY <1>3 DEF Replace
  <2>2. q = [p EXCEPT !.unclaimed = more]
    BY <1>1, <2>1 DEF Payload
  <2>3. i \in DOMAIN list /\ list[i].wallet = w /\ list[i].tx = o /\ list[i].stage = "Mempool"
    BY <1>2, <1>3 DEF As
  <2> HIDE DEF i, q
  <2>4. /\ DOMAIN more = DOMAIN list
        /\ \A k \in DOMAIN list : k # i => more[k] = list[k]
        /\ more[i] = [list[i] EXCEPT !.tx = t]
    BY <1>1, <2>3
  <2>5. list[i] \in NewsEntries
    BY <1>1, <2>3
  <2> HIDE DEF more
  <2>6. more[i].wallet = w /\ more[i].tx = t /\ more[i].stage = "Mempool"
    BY <2>3, <2>4, <2>5 DEF NewsEntries
  <2>7. q.unclaimed = more /\ q.announced = p.announced /\ q.forgotten = p.forgotten
    BY <2>2 DEF Payload
  <2>8. ASSUME NEW e \in ToSet(list)
        PROVE  e \in ToSet(more) \/ (e.stage = "Mempool" /\ <<e.wallet, e.tx>> \in {<<w, o>>})
    <3>1. PICK k \in DOMAIN list : e = list[k]
      BY DEF ToSet
    <3>2. CASE k = i
      BY <2>3, <3>1, <3>2
    <3>3. CASE k # i
      <4>1. k \in DOMAIN more /\ more[k] = e
        BY <2>4, <3>1, <3>3
      <4> QED BY <4>1 DEF ToSet
    <3> QED BY <3>2, <3>3
  <2>9. Carries(p, q, {<<w, o>>})
    BY <2>7, <2>8 DEF Carries
  <2>10. Passes(p, q, {<<w, o>>})
    BY <2>7, <2>9, CarriesPasses
  <2>11. more[i] \in ToSet(more)
    BY <2>3, <2>4 DEF ToSet
  <2>12. Aware(q, w, t, "Mempool")
    BY <2>6, <2>7, <2>11 DEF Aware, Known, WaitingAs, As
  <2> QED BY <2>10, <2>12 DEF Heard, q
<1>4. CASE i = 0
  <2> DEFINE u == AnnouncedUnder(p, w, o)
             e == [wallet |-> w, tx |-> t, stage |-> "Mempool", replaces |-> u]
  <2>1. q = Remember(p, <<e>>)
    BY <1>4 DEF Replace
  <2>2. e.wallet = w /\ e.tx = t /\ e.stage = "Mempool"
    OBVIOUS
  <2> HIDE DEF e, q
  <2>3. Passes(p, q, {}) /\ Heard(q, w, t, "Mempool")
    BY <2>1, <2>2, RememberPasses
  <2>4. Passes(p, q, {<<w, o>>})
    BY <2>3 DEF Passes
  <2> QED BY <2>3, <2>4 DEF q
<1> QED BY <1>3, <1>4

\* What the transactions of a list conflict with, among those before.
Rivals(w, new, before) ==
  {<<w, o>> : o \in {u \in before : \E t \in new : Conflict(t, u)}}

\* A transaction seen for the first time is heard of, at its stage.
LEMMA ArrivalPasses ==
  ASSUME NEW p \in Payload, NEW w, NEW t, NEW mv, mv.before \in Seq(Txs), NEW n
  PROVE  LET q == RecordArrival(p, w, t, mv, n) IN
         /\ Passes(p, q, Rivals(w, {t}, ToSet(mv.before)))
         /\ Heard(q, w, t, IF t \in mv.mined THEN "Confirmed" ELSE "Mempool")
<1> DEFINE some == {o \in ToSet(mv.before) : Conflict(t, o) /\ Bumps(w, t, o)}
           bumped == BumpedBy(w, t, mv.before)
           told == {o \in ToSet(bumped) : PendingSaid(p, w, o)}
           heard == Only(bumped, told)
           q == RecordArrival(p, w, t, mv, n)
           X == Rivals(w, {t}, ToSet(mv.before))
<1>1. bumped \in Seq(Txs) /\ ToSet(bumped) = ToSet(mv.before) \cap some
  <2>1. bumped = Only(mv.before, some)
    BY DEF BumpedBy
  <2> HIDE DEF some, bumped
  <2> QED BY <2>1, OnlyIs
<1>2. ASSUME NEW o \in ToSet(bumped) PROVE <<w, o>> \in X
  BY <1>1 DEF Rivals
<1> HIDE DEF bumped, some, X
<1>3. heard \in Seq(Txs) /\ ToSet(heard) = ToSet(bumped) \cap told
  BY <1>1, OnlyIs
<1> HIDE DEF heard
<1>4. CASE t \in mv.mined
  <2> DEFINE u == IF bumped = << >> THEN NONE ELSE AnnouncedUnder(p, w, Head(bumped))
  <2>1. q = Push(p, w, t, "Confirmed", u, n)
    BY <1>4 DEF RecordArrival, bumped
  <2> HIDE DEF u, q
  <2>2. Passes(p, q, {}) /\ Heard(q, w, t, "Confirmed")
    BY <2>1, PushPasses
  <2>3. Passes(p, q, X)
    BY <2>2 DEF Passes
  <2> QED BY <1>4, <2>2, <2>3 DEF q, X
<1>5. CASE t \notin mv.mined /\ heard # << >>
  <2> DEFINE o == Head(heard)
  <2>1. q = Replace(p, w, o, t)
    BY <1>5 DEF RecordArrival, bumped, heard
  <2>2. o \in ToSet(bumped)
    BY <1>3, <1>5, HeadIs
  <2> HIDE DEF o, q
  <2>3. Passes(p, q, {<<w, o>>}) /\ Heard(q, w, t, "Mempool")
    BY <2>1, ReplacePasses
  <2>4. <<w, o>> \in X
    BY <1>2, <2>2
  <2>5. Passes(p, q, X)
    BY <2>3, <2>4 DEF Passes
  <2> QED BY <1>5, <2>3, <2>5 DEF q, X
<1>6. CASE t \notin mv.mined /\ heard = << >>
  <2>1. q = Push(p, w, t, "Mempool", NONE, n)
    BY <1>6 DEF RecordArrival, bumped, heard
  <2> HIDE DEF q
  <2>2. Passes(p, q, {}) /\ Heard(q, w, t, "Mempool")
    BY <2>1, PushPasses
  <2>3. Passes(p, q, X)
    BY <2>2 DEF Passes
  <2> QED BY <1>6, <2>2, <2>3 DEF q, X
<1> QED BY <1>4, <1>5, <1>6

\* What is kept aside is another list.
LEMMA AsidePasses ==
  ASSUME NEW p \in Payload, NEW kept
  PROVE  /\ Passes(p, ForgetVanished(p, kept), {})
         /\ Passes(p, [p EXCEPT !.vanishing = kept], {})
<1> DEFINE lost == {<<e.wallet, e.told_as, "Dropped">> : e \in ToSet(p.vanishing) \ ToSet(kept)}
           q == ForgetVanished(p, kept)
           r == [p EXCEPT !.vanishing = kept]
<1> HIDE DEF lost
<1>1. q = [p EXCEPT !.vanishing = kept, !.forgotten = @ \cup lost]
  BY DEF ForgetVanished, lost
<1> HIDE DEF q
<1>2. /\ q.announced = p.announced /\ q.unclaimed = p.unclaimed /\ p.forgotten \subseteq q.forgotten
  BY <1>1 DEF Payload
<1>3. /\ r.announced = p.announced /\ r.unclaimed = p.unclaimed /\ r.forgotten = p.forgotten
  BY DEF Payload
<1> HIDE DEF r
<1>4. Carries(p, q, {}) /\ Carries(p, r, {})
  BY <1>2, <1>3 DEF Carries
<1>5. Passes(p, q, {}) /\ Passes(p, r, {})
  BY <1>2, <1>3, <1>4, CarriesPasses
<1> QED BY <1>5 DEF q, r

\* A transaction the wallet no longer holds.
LEMMA GonePasses ==
  ASSUME NEW p \in Payload, NEW w, NEW o, NEW n
  PROVE  Passes(p, RecordGone(p, w, o, n), {<<w, o>>})
<1> DEFINE q == RecordGone(p, w, o, n)
<1>1. CASE WaitingAs(p, w, o, "Mempool")
  <2>1. q = UnsayArrival(p, w, o)
    BY <1>1 DEF RecordGone
  <2> HIDE DEF q
  <2>2. Carries(p, q, {<<w, o>>}) /\ q.announced = p.announced
    BY <2>1, UnsayPasses
  <2>3. Passes(p, q, {<<w, o>>})
    BY <2>2, CarriesPasses
  <2> QED BY <2>3 DEF q
<1>2. CASE ~WaitingAs(p, w, o, "Mempool")
  <2>1. q = p \/ \E kept : q = ForgetVanished(p, kept)
    BY <1>2 DEF RecordGone, Vanish
  <2> HIDE DEF q
  <2>2. Passes(p, p, {})
    BY DEF Passes
  <2>3. Passes(p, q, {})
    BY <2>1, <2>2, AsidePasses
  <2>4. Passes(p, q, {<<w, o>>})
    BY <2>3 DEF Passes
  <2> QED BY <2>4 DEF q
<1> QED BY <1>1, <1>2

-----------------------------------------------------------------------------
(* What a sync, a claim and a removal pass on.                             *)

\* What passes at each step of a list passes from any of them to its end.
LEMMA Chain ==
  ASSUME NEW n \in Nat, NEW g, NEW X, \A k \in 1..n : Passes(g[k - 1], g[k], X)
  PROVE  \A i \in 0..n : Passes(g[i], g[n], X)
<1> SUFFICES ASSUME NEW i \in 0..n PROVE Passes(g[i], g[n], X)
  OBVIOUS
<1> DEFINE D == {k \in 0..n : k >= i => Passes(g[i], g[k], X)}
<1>1. \A q : Passes(q, q, X)
  BY DEF Passes
<1>2. 0 \in D
  BY <1>1
<1>3. ASSUME NEW k \in 1..n, k - 1 \in D PROVE k \in D
  <2>1. CASE k = i
    BY <1>1, <2>1
  <2>2. CASE k > i
    <3>1. Passes(g[i], g[k - 1], X) /\ Passes(g[k - 1], g[k], X)
      BY <1>3, <2>2
    <3>2. Passes(g[i], g[k], X)
      BY <3>1, PassesOn
    <3> QED BY <3>2
  <2>3. CASE k < i
    BY <2>3
  <2> QED BY <2>1, <2>2, <2>3
<1> HIDE DEF D
<1>4. \A k \in 0..n : k \in D
  BY <1>2, <1>3, InductionUpTo
<1> QED BY <1>4 DEF D

\* Payments said dropped.
LEMMA PushDroppedPasses ==
  ASSUME NEW p, NEW w, NEW entries \in Seq(VanishedEntries), NEW m,
         \E g : PushDroppedSteps(g, p, w, entries, m)
  PROVE  Passes(p, PushDropped(p, w, entries, m), {})
<1> DEFINE n == Len(entries)
           none == {}
<1>1. PICK g : PushDroppedSteps(g, p, w, entries, m)
  OBVIOUS
<1>2. n \in Nat
  OBVIOUS
<1>3. ASSUME NEW k \in 1..n PROVE Passes(g[k - 1], g[k], none)
  <2>1. k - 1 \in 0..n
    BY <1>2
  <2>2. g[k - 1] \in Payload /\ g[k] = Push(g[k - 1], w, entries[k].told_as, "Dropped", NONE, m)
    BY <1>1, <2>1 DEF PushDroppedSteps
  <2> QED BY <2>2, PushPasses
<1> HIDE DEF none, n
<1>4. Passes(g[0], g[n], none)
  <2>1. \A k \in 0..n : Passes(g[k], g[n], none)
    BY <1>2, <1>3, Chain
  <2> QED BY <1>2, <2>1
<1> QED BY <1>1, <1>4 DEF PushDroppedSteps, n, none

\* Payments found in a block are heard of as confirmed.
LEMMA RecordConfirmedPasses ==
  ASSUME NEW p, NEW w, NEW mv, mv.confirmed \in Seq(Txs), NEW m,
         \E g : RecordConfirmedSteps(g, p, w, mv, m)
  PROVE  LET q == RecordConfirmed(p, w, mv, m) IN
         Passes(p, q, {}) /\ \A t \in ToSet(mv.confirmed) : Heard(q, w, t, "Confirmed")
<1> DEFINE list == mv.confirmed
           n == Len(list)
           none == {}
           q == RecordConfirmed(p, w, mv, m)
<1>1. PICK g : RecordConfirmedSteps(g, p, w, mv, m)
  OBVIOUS
<1>2. n \in Nat /\ DOMAIN list = 1..n
  OBVIOUS
<1>3. ASSUME NEW k \in 1..n
      PROVE  Passes(g[k - 1], g[k], none) /\ Heard(g[k], w, list[k], "Confirmed")
  <2>1. k - 1 \in 0..n
    BY <1>2
  <2>2. g[k - 1] \in Payload
        /\ g[k] = Push(g[k - 1], w, list[k], "Confirmed", FirstOf(g[k - 1], w, list[k]), m)
    BY <1>1, <2>1 DEF RecordConfirmedSteps
  <2> QED BY <2>2, PushPasses
<1>4. g[0] = p /\ g[n] = q
  BY <1>1 DEF RecordConfirmedSteps
<1> HIDE DEF none, n, q
<1>5. \A k \in 0..n : Passes(g[k], g[n], none)
  BY <1>2, <1>3, Chain
<1>6. ASSUME NEW t \in ToSet(list) PROVE Heard(q, w, t, "Confirmed")
  <2>1. PICK k \in 1..n : t = list[k]
    BY <1>2 DEF ToSet
  <2>2. Heard(g[k], w, t, "Confirmed") /\ Passes(g[k], q, none)
    BY <1>2, <1>3, <1>4, <1>5, <2>1
  <2> QED BY <2>2 DEF Passes, none
<1>7. Passes(p, q, none)
  BY <1>2, <1>4, <1>5
<1> QED BY <1>6, <1>7 DEF q, none

\* What is seen for the first time is heard of at its stage, and what was
\* heard is still, but for what conflicts with it.
LEMMA RecordArrivalsPasses ==
  ASSUME NEW p, NEW w, NEW mv, mv.new \in Seq(Txs), mv.before \in Seq(Txs), NEW m,
         \E g : RecordArrivalsSteps(g, p, w, mv, m)
  PROVE  LET q == RecordArrivals(p, w, mv, m)
             X == Rivals(w, ToSet(mv.new), ToSet(mv.before))
         IN  /\ Passes(p, q, X)
             /\ \A t \in ToSet(mv.new) :
                  <<w, t>> \notin X =>
                    Heard(q, w, t, IF t \in mv.mined THEN "Confirmed" ELSE "Mempool")
<1> DEFINE list == mv.new
           n == Len(list)
           X == Rivals(w, ToSet(list), ToSet(mv.before))
           q == RecordArrivals(p, w, mv, m)
           stage(t) == IF t \in mv.mined THEN "Confirmed" ELSE "Mempool"
<1>1. PICK g : RecordArrivalsSteps(g, p, w, mv, m)
  OBVIOUS
<1>2. n \in Nat /\ DOMAIN list = 1..n
  OBVIOUS
<1>3. ASSUME NEW k \in 1..n
      PROVE  Passes(g[k - 1], g[k], X) /\ Heard(g[k], w, list[k], stage(list[k]))
  <2> DEFINE Y == Rivals(w, {list[k]}, ToSet(mv.before))
  <2>1. k - 1 \in 0..n
    BY <1>2
  <2>2. g[k - 1] \in Payload /\ g[k] = RecordArrival(g[k - 1], w, list[k], mv, m)
    BY <1>1, <2>1 DEF RecordArrivalsSteps
  <2>3. Passes(g[k - 1], g[k], Y) /\ Heard(g[k], w, list[k], stage(list[k]))
    <3> DEFINE a == g[k - 1]
               t == list[k]
               r == RecordArrival(a, w, t, mv, m)
    <3>1. a \in Payload
      BY <2>2
    <3> HIDE DEF a, t
    <3>2. Passes(a, r, Rivals(w, {t}, ToSet(mv.before))) /\ Heard(r, w, t, stage(t))
      BY <3>1, ArrivalPasses
    <3> QED BY <2>2, <3>2 DEF a, t
  <2>4. Y \subseteq X
    <3>1. list[k] \in ToSet(list)
      BY <1>2 DEF ToSet
    <3> QED BY <3>1 DEF Rivals
  <2> HIDE DEF X, Y
  <2>5. Passes(g[k - 1], g[k], X)
    BY <2>3, <2>4, PassesLess
  <2> QED BY <2>3, <2>5
<1>4. g[0] = p /\ g[n] = q
  BY <1>1 DEF RecordArrivalsSteps
<1> HIDE DEF X, n, q, stage
<1>5. \A k \in 0..n : Passes(g[k], g[n], X)
  BY <1>2, <1>3, Chain
<1>6. ASSUME NEW t \in ToSet(list), <<w, t>> \notin X PROVE Heard(q, w, t, stage(t))
  <2>1. PICK k \in 1..n : t = list[k]
    BY <1>2 DEF ToSet
  <2>2. Heard(g[k], w, t, stage(t)) /\ Passes(g[k], q, X)
    BY <1>2, <1>3, <1>4, <1>5, <2>1
  <2> QED BY <1>6, <2>2 DEF Passes
<1>7. Passes(p, q, X)
  BY <1>2, <1>4, <1>5
<1> QED BY <1>6, <1>7 DEF q, X, stage

\* What the wallet no longer holds may be heard of no more.
LEMMA RecordDeparturesPasses ==
  ASSUME NEW p, NEW w, NEW mv, mv.gone \in Seq(Txs), NEW m,
         \E g : RecordDeparturesSteps(g, p, w, mv, m)
  PROVE  Passes(p, RecordDepartures(p, w, mv, m), {<<w, t>> : t \in ToSet(mv.gone)})
<1> DEFINE list == mv.gone
           n == Len(list)
           X == {<<w, t>> : t \in ToSet(mv.gone)}
<1>1. PICK g : RecordDeparturesSteps(g, p, w, mv, m)
  OBVIOUS
<1>2. n \in Nat /\ DOMAIN list = 1..n
  OBVIOUS
<1>3. ASSUME NEW k \in 1..n PROVE Passes(g[k - 1], g[k], X)
  <2> DEFINE Y == {<<w, list[k]>>}
  <2>1. k - 1 \in 0..n
    BY <1>2
  <2>2. g[k - 1] \in Payload /\ g[k] = RecordGone(g[k - 1], w, list[k], m)
    BY <1>1, <2>1 DEF RecordDeparturesSteps
  <2>3. Passes(g[k - 1], g[k], Y)
    BY <2>2, GonePasses
  <2>4. Y \subseteq X
    <3>1. list[k] \in ToSet(list)
      BY <1>2 DEF ToSet
    <3> QED BY <3>1
  <2> HIDE DEF X, Y
  <2> QED BY <2>3, <2>4, PassesLess
<1> HIDE DEF X, n
<1>4. Passes(g[0], g[n], X)
  <2>1. \A k \in 0..n : Passes(g[k], g[n], X)
    BY <1>2, <1>3, Chain
  <2> QED BY <1>2, <2>1
<1> QED BY <1>1, <1>4 DEF RecordDeparturesSteps, n, X

\* Vanished payments that what is seen now replaces.
LEMMA RecordReplacedPasses ==
  ASSUME NEW p, NEW W, NEW H, NEW C, NEW S, PayloadOK(p, W, H, C, S),
         NEW w \in W, w \in Wallets, NEW mv, NEW m \in Nat
  PROVE  Passes(p, RecordReplaced(p, w, mv, m), {})
<1> DEFINE rivals(e) == {t \in ToSet(mv.new) : e.wallet = w /\ Conflict(t, e.tx)}
           apart == {e \in ToSet(p.vanishing) : rivals(e) = {}}
           cut == {e \in ToSet(p.vanishing) \ apart :
                     \A t \in rivals(e) : ~ Bumps(w, t, e.tx)}
           less == Only(p.vanishing, apart)
           q == [p EXCEPT !.vanishing = Only(@, apart)]
           entries == Only(p.vanishing, cut)
           r == PushDropped(q, w, entries, m)
<1>1. RecordReplaced(p, w, mv, m) = r
  BY DEF RecordReplaced
<1>2. \A e \in ToSet(p.vanishing) \cap cut : e.wallet = w
  OBVIOUS
<1> HIDE DEF apart, cut
<1>3. PayloadOK(q, W, H, C, S) /\ p \in Payload
  BY SomeVanishing DEF PayloadOK
<1>4. /\ entries \in Seq(VanishedEntries)
      /\ \A e \in ToSet(entries) : <<w, e.told_as, "Mempool">> \in S /\ Net[w][e.told_as] > 0
  BY <1>2, VanishedSaid
<1>5. q = [p EXCEPT !.vanishing = less]
  OBVIOUS
<1> HIDE DEF q, entries, less
<1>6. \E g : PushDroppedSteps(g, q, w, entries, m)
  BY <1>3, <1>4, PushDroppedKeeps
<1> DEFINE none == {}
<1>7. Passes(p, q, none) /\ Passes(q, r, none)
  BY <1>3, <1>4, <1>5, <1>6, AsidePasses, PushDroppedPasses
<1> HIDE DEF none, r
<1>8. Passes(p, r, none)
  BY <1>7, PassesOn
<1> QED BY <1>1, <1>8 DEF none

\* The second look.
LEMMA SettlePasses ==
  ASSUME NEW p, NEW W, NEW H, NEW C, NEW S, PayloadOK(p, W, H, C, S),
         NEW w \in W, w \in Wallets, NEW held, NEW reread, NEW m \in Nat
  PROVE  Passes(p, Settle(p, w, held, reread, m), {})
<1> DEFINE all == ToSet(p.vanishing)
           young == {e \in all : e.missed + VANISHING_FOR >= m}
           back == {e \in all : e.wallet = w /\ e.tx \in held}
           missed == {e \in all : /\ e.wallet = w
                                  /\ m >= e.missed + DROPPED_AFTER
                                  /\ e.tx \in reread \ held}
           fresh == Only(p.vanishing, young)
           kept == ForgetVanished(p, fresh)
           left == all \ (back \cup missed)
           less == Only(kept.vanishing, left)
           q == [kept EXCEPT !.vanishing = Only(@, left)]
           entries == Only(kept.vanishing, missed)
           r == PushDropped(q, w, entries, m)
           none == {}
<1>1. Settle(p, w, held, reread, m) = r
  BY DEF Settle
<1>2. \A e \in missed : e.wallet = w
  OBVIOUS
<1> HIDE DEF young, left, missed
<1>3. PayloadOK(kept, W, H, C, S) /\ p \in Payload
  BY SomeVanishing DEF PayloadOK
<1> HIDE DEF fresh
<1>4. Passes(p, kept, none)
  BY <1>3, AsidePasses
<1> HIDE DEF kept
<1>5. PayloadOK(q, W, H, C, S) /\ kept \in Payload
  BY <1>3, SomeVanishing DEF PayloadOK
<1>6. /\ entries \in Seq(VanishedEntries)
      /\ \A e \in ToSet(entries) : <<w, e.told_as, "Mempool">> \in S /\ Net[w][e.told_as] > 0
  BY <1>2, <1>3, VanishedSaid
<1>7. q = [kept EXCEPT !.vanishing = less]
  OBVIOUS
<1> HIDE DEF q, entries, less
<1>8. \E g : PushDroppedSteps(g, q, w, entries, m)
  BY <1>5, <1>6, PushDroppedKeeps
<1>9. Passes(kept, q, none) /\ Passes(q, r, none)
  BY <1>5, <1>6, <1>7, <1>8, AsidePasses, PushDroppedPasses
<1> HIDE DEF none, r
<1>10. Passes(kept, r, none)
  BY <1>9, PassesOn
<1>11. Passes(p, r, none)
  BY <1>4, <1>10, PassesOn
<1> QED BY <1>1, <1>11 DEF none

\* A sync's record: what it found in a block is heard of as confirmed, what it
\* saw for the first time at its stage, and what was heard is still, but for
\* what is gone or conflicts with what is new.
LEMMA RecordPasses ==
  ASSUME NEW p, NEW W, NEW H, NEW C, NEW S, PayloadOK(p, W, H, C, S),
         NEW w \in W, w \in Wallets, NEW mv, MovesOK(mv, w, H, C), NEW m \in Nat
  PROVE  LET q == Record(p, w, FALSE, mv, m)
             X == Rivals(w, ToSet(mv.new), ToSet(mv.before))
                    \cup {<<w, t>> : t \in ToSet(mv.gone)}
         IN  /\ Passes(p, q, X)
             /\ \A t \in ToSet(mv.confirmed) :
                  <<w, t>> \notin X => Heard(q, w, t, "Confirmed")
             /\ \A t \in ToSet(mv.new) :
                  <<w, t>> \notin X =>
                    Heard(q, w, t, IF t \in mv.mined THEN "Confirmed" ELSE "Mempool")
<1> DEFINE q0 == Expire(p, m)
           q1 == RecordConfirmed(q0, w, mv, m)
           q2 == RecordArrivals(q1, w, mv, m)
           q3 == RecordDepartures(q2, w, mv, m)
           q == RecordReplaced(q3, w, mv, m)
           H1 == H \cup {<<w, t>> : t \in ToSet(mv.new)}
           H2 == H1 \ {<<w, t>> : t \in ToSet(mv.gone)}
           R == Rivals(w, ToSet(mv.new), ToSet(mv.before))
           G == {<<w, t>> : t \in ToSet(mv.gone)}
           X == R \cup G
           none == {}
           stage(t) == IF t \in mv.mined THEN "Confirmed" ELSE "Mempool"
<1>1. Record(p, w, FALSE, mv, m) = q
  BY DEF Record
<1>2. /\ PayloadOK(q0, W, H, C, S) /\ p \in Payload
  BY ExpireKeeps DEF PayloadOK
<1>3. /\ mv.gone \in Seq(Txs) /\ mv.confirmed \in Seq(Txs) /\ mv.new \in Seq(Txs)
      /\ mv.before \in Seq(Txs)
  BY DEF MovesOK
<1>4. Passes(p, q0, none)
  <2>1. Carries(p, q0, none) /\ q0.announced = p.announced
    BY <1>2, ExpirePasses
  <2> HIDE DEF q0, none
  <2> QED BY <2>1, CarriesPasses
<1> HIDE DEF q0
<1>5. PayloadOK(q1, W, H, C, S) /\ \E g : RecordConfirmedSteps(g, q0, w, mv, m)
  BY <1>2, RecordConfirmedKeeps
<1>6. /\ Passes(q0, q1, none)
      /\ \A t \in ToSet(mv.confirmed) : Heard(q1, w, t, "Confirmed")
  BY <1>3, <1>5, RecordConfirmedPasses
<1> HIDE DEF q1
<1>7. PayloadOK(q2, W, H1, C, S) /\ \E g : RecordArrivalsSteps(g, q1, w, mv, m)
  BY <1>5, RecordArrivalsKeeps
<1>8. /\ Passes(q1, q2, R)
      /\ \A t \in ToSet(mv.new) : <<w, t>> \notin R => Heard(q2, w, t, stage(t))
  BY <1>3, <1>7, RecordArrivalsPasses
<1> HIDE DEF q2, H1
<1>9. PayloadOK(q3, W, H2, C, S) /\ \E g : RecordDeparturesSteps(g, q2, w, mv, m)
  BY <1>3, <1>7, RecordDeparturesKeeps
<1>10. Passes(q2, q3, G)
  BY <1>3, <1>9, RecordDeparturesPasses
<1> HIDE DEF q3, H2
<1>11. Passes(q3, q, none)
  BY <1>9, RecordReplacedPasses
<1> HIDE DEF q
<1>12. none \subseteq X /\ R \subseteq X /\ G \subseteq X
  OBVIOUS
<1> HIDE DEF none, R, G, X
<1>13. Passes(p, q0, X) /\ Passes(q0, q1, X) /\ Passes(q1, q2, X)
       /\ Passes(q2, q3, X) /\ Passes(q3, q, X)
  BY <1>4, <1>6, <1>8, <1>10, <1>11, <1>12, PassesLess
<1>14. Passes(q2, q, X)
  BY <1>13, PassesOn
<1>15. Passes(q1, q, X)
  BY <1>13, <1>14, PassesOn
<1>16. Passes(p, q, X)
  <2>1. Passes(q0, q, X)
    BY <1>13, <1>15, PassesOn
  <2> QED BY <1>13, <2>1, PassesOn
<1>17. ASSUME NEW t \in ToSet(mv.confirmed), <<w, t>> \notin X PROVE Heard(q, w, t, "Confirmed")
  BY <1>6, <1>15, <1>17 DEF Passes
<1> HIDE DEF stage
<1>18. ASSUME NEW t \in ToSet(mv.new), <<w, t>> \notin X PROVE Heard(q, w, t, stage(t))
  <2>1. Heard(q2, w, t, stage(t))
    BY <1>8, <1>12, <1>18
  <2> QED BY <1>14, <1>18, <2>1 DEF Passes
<1> QED BY <1>1, <1>16, <1>17, <1>18 DEF X, R, G, stage

\* Nothing is lost by a claim.
LEMMA ClaimAware ==
  ASSUME NEW p \in Payload, NEW m, NEW spoken, NEW q, HandedOver(Expire(p, m), spoken, q),
         NEW x, NEW t, NEW stage, Aware(p, x, t, stage)
  PROVE  Aware(q, x, t, stage)
<1> DEFINE r == Expire(p, m)
           none == {}
<1>1. Carries(p, r, none) /\ <<x, t>> \notin none
  BY ExpirePasses
<1> HIDE DEF r, none
<1>2. Aware(r, x, t, stage)
  BY <1>1, CarriesAware
<1>3. HandedOver(r, spoken, q)
  BY DEF r
<1>4. ASSUME NEW s, Told(r, x, t, s) PROVE Told(q, x, t, s)
  BY <1>3, <1>4 DEF HandedOver, Told, AnnouncedAs, As
<1>5. ASSUME NEW s, WaitingAs(r, x, t, s) PROVE Known(q, x, t, s)
  <2>1. PICK e \in ToSet(r.unclaimed) : e.wallet = x /\ e.tx = t /\ e.stage = s
    BY <1>5 DEF WaitingAs, As
  <2>2. CASE e \in ToSet(q.unclaimed)
    BY <2>1, <2>2 DEF Known, WaitingAs, As
  <2>3. CASE Told(r, e.wallet, e.tx, e.stage)
    BY <1>4, <2>1, <2>3 DEF Known
  <2>4. CASE \E f \in ToSet(spoken) : f.wallet = e.wallet /\ f.tx = e.tx /\ f.stage = e.stage
    <3>1. PICK f \in ToSet(q.announced) : f.wallet = x /\ f.tx = t /\ f.stage = s
      BY <1>3, <2>1, <2>4 DEF HandedOver
    <3> QED BY <3>1 DEF Known, Told, AnnouncedAs, As
  <2> QED BY <1>3, <2>2, <2>3, <2>4 DEF HandedOver
<1>6. ASSUME NEW s, Known(r, x, t, s) PROVE Known(q, x, t, s)
  <2>1. CASE Told(r, x, t, s)
    BY <1>4, <2>1 DEF Known
  <2>2. CASE <<x, t, s>> \in r.forgotten
    BY <1>3, <2>2 DEF HandedOver, Known
  <2> QED BY <1>5, <1>6, <2>1, <2>2 DEF Known
<1> QED BY <1>2, <1>6 DEF Aware

\* A removal leaves what is known of the other wallets.
LEMMA PurgeAware ==
  ASSUME NEW p \in Payload, NEW w, NEW x, x # w, NEW t, NEW stage, Aware(p, x, t, stage)
  PROVE  Aware(Purge(p, w), x, t, stage)
<1> DEFINE others(list) == Only(list, {e \in ToSet(list) : e.wallet # w})
           lost == {f \in p.forgotten : f[1] # w}
           q == Purge(p, w)
<1>1. q = [unclaimed |-> others(p.unclaimed), announced |-> others(p.announced),
           vanishing |-> others(p.vanishing), forgotten |-> lost]
  BY DEF Purge
<1>2. ASSUME NEW T, NEW list \in Seq(T), NEW e \in ToSet(list), e.wallet = x
      PROVE  e \in ToSet(others(list))
  <2> DEFINE some == {f \in ToSet(list) : f.wallet # w}
  <2>1. e \in some
    BY <1>2
  <2> HIDE DEF some
  <2>2. ToSet(Only(list, some)) = ToSet(list) \cap some
    BY OnlyIs
  <2> QED BY <2>1, <2>2 DEF some
<1>3. p.unclaimed \in Seq(NewsEntries) /\ p.announced \in Seq(RecordEntries)
  BY DEF Payload, NewsEntries, RecordEntries
<1>4. \A s : <<x, t, s>> \in p.forgotten => <<x, t, s>> \in lost
  OBVIOUS
<1> HIDE DEF others, lost
<1>5. q.unclaimed = others(p.unclaimed) /\ q.announced = others(p.announced) /\ q.forgotten = lost
  BY <1>1
<1> HIDE DEF q
<1>6. \A e \in ToSet(p.unclaimed) : e.wallet = x => e \in ToSet(q.unclaimed)
  BY <1>2, <1>3, <1>5
<1>7. \A e \in ToSet(p.announced) : e.wallet = x => e \in ToSet(q.announced)
  BY <1>2, <1>3, <1>5
<1>8. ASSUME NEW s, Known(p, x, t, s) PROVE Known(q, x, t, s)
  <2>1. CASE Told(p, x, t, s)
    <3>1. Told(q, x, t, s)
      BY <1>7, <2>1 DEF Told, AnnouncedAs, As
    <3> QED BY <3>1 DEF Known
  <2>2. CASE WaitingAs(p, x, t, s)
    <3>1. WaitingAs(q, x, t, s)
      BY <1>6, <2>2 DEF WaitingAs, As
    <3> QED BY <3>1 DEF Known
  <2>3. CASE <<x, t, s>> \in p.forgotten
    BY <1>4, <1>5, <2>3 DEF Known
  <2> QED BY <1>8, <2>1, <2>2, <2>3 DEF Known
<1> QED BY <1>8 DEF Aware, q

\* What each wallet holds is known, or came with its import.
StateHeard(state) ==
  \A x \in state.wallets, t \in Txs :
    /\ state.held[x][t] = "pending" =>
         Aware(state.news, x, t, "Mempool") \/ state.imported[x][t] # "absent"
    /\ state.held[x][t] = "confirmed" =>
         Aware(state.news, x, t, "Confirmed") \/ state.imported[x][t] = "confirmed"

\* What a sync moved has all that it found, and nothing that it holds is gone
\* or conflicts with what is new.
LEMMA MovesHave ==
  ASSUME NEW S, StateGood(mem, S), NEW w \in Wallets, NEW view \in Views,
         Consistent(view), NEW mv \in Moves(w, view), NEW t \in Txs, view[t] # "absent"
  PROVE  /\ mem.held[w][t] = "absent" => t \in ToSet(mv.new)
         /\ mem.held[w][t] = "absent" => (t \in mv.mined <=> view[t] = "confirmed")
         /\ mem.held[w][t] = "pending" /\ view[t] = "confirmed" => t \in ToSet(mv.confirmed)
         /\ <<w, t>> \notin Rivals(w, ToSet(mv.new), ToSet(mv.before))
                              \cup {<<w, u>> : u \in ToSet(mv.gone)}
<1> DEFINE old == mem.held[w]
           new == {u \in Txs : old[u] = "absent" /\ view[u] # "absent"}
           pending == {u \in Txs : old[u] = "pending"}
           confirmed == {u \in pending : view[u] = "confirmed"}
           before == pending \cup Vanishing(mem.news, w)
           gone == {u \in pending : view[u] = "absent"}
           mined == {u \in new : view[u] = "confirmed"}
<1>1. /\ mv.new \in SetToSeqs(new) /\ mv.mined = mined /\ mv.confirmed \in SetToSeqs(confirmed)
      /\ mv.gone \in SetToSeqs(gone)
  BY DEF Moves
<1>2. new \in SUBSET Txs /\ confirmed \in SUBSET Txs /\ gone \in SUBSET Txs
  OBVIOUS
<1>3. /\ old[t] = "absent" => t \in new
      /\ old[t] = "absent" => (t \in mined <=> view[t] = "confirmed")
      /\ old[t] = "pending" /\ view[t] = "confirmed" => t \in confirmed
      /\ t \notin gone /\ \A u \in new : u \in Txs /\ view[u] # "absent"
  OBVIOUS
<1> HIDE DEF new, confirmed, gone, mined
<1>4. ToSet(mv.new) = new /\ ToSet(mv.confirmed) = confirmed /\ ToSet(mv.gone) = gone
  BY <1>1, <1>2, SeqsAre
<1>5. \A u \in new : ~Conflict(u, t)
  BY <1>3 DEF Consistent
<1>6. <<w, t>> \notin Rivals(w, ToSet(mv.new), ToSet(mv.before))
  BY <1>4, <1>5 DEF Rivals
<1>7. <<w, t>> \notin {<<w, u>> : u \in ToSet(mv.gone)}
  BY <1>3, <1>4
<1> QED BY <1>1, <1>3, <1>4, <1>6, <1>7

\* The wallet a sync was of: what it holds is heard of, or came with the import.
LEMMA SyncedHeard ==
  ASSUME ~Reorgs, NEW S, StateGood(mem, S), StateHeard(mem), now \in Nat,
         NEW w \in mem.wallets, w \in Wallets, mem.synced[w],
         NEW view \in Views, Consistent(view), Follows(mem.held[w], view),
         NEW mv \in Moves(w, view), NEW t \in Txs
  PROVE  LET q == Record(mem.news, w, ~ mem.synced[w], mv, now)
             imported == ImportedAfter(w, view)
         IN  /\ view[t] = "pending" => Heard(q, w, t, "Mempool") \/ imported[t] # "absent"
             /\ view[t] = "confirmed" =>
                  Heard(q, w, t, "Confirmed") \/ imported[t] = "confirmed"
<1> DEFINE q == Record(mem.news, w, ~ mem.synced[w], mv, now)
           X == Rivals(w, ToSet(mv.new), ToSet(mv.before)) \cup {<<w, u>> : u \in ToSet(mv.gone)}
           imported == ImportedAfter(w, view)
           old == mem.held[w]
           was == mem.imported[w]
           H == HeldIn(mem.held)
           C == InBlocks([mem.held EXCEPT ![w] = view])
<1>1. q = Record(mem.news, w, FALSE, mv, now)
  OBVIOUS
<1>2. MovesOK(mv, w, H, C) /\ PayloadOK(mem.news, mem.wallets, H, C, S)
  BY SyncRecords
<1> HIDE DEF q, H, C
<1>3. /\ Passes(mem.news, q, X)
      /\ \A u \in ToSet(mv.confirmed) : <<w, u>> \notin X => Heard(q, w, u, "Confirmed")
      /\ \A u \in ToSet(mv.new) :
           <<w, u>> \notin X => Heard(q, w, u, IF u \in mv.mined THEN "Confirmed" ELSE "Mempool")
  <2> DEFINE p == mem.news
             W == mem.wallets
             r == Record(p, w, FALSE, mv, now)
  <2>1. PayloadOK(p, W, H, C, S) /\ MovesOK(mv, w, H, C) /\ w \in W /\ q = r
    BY <1>1, <1>2
  <2> HIDE DEF p, W
  <2>2. /\ Passes(p, r, X)
        /\ \A u \in ToSet(mv.confirmed) : <<w, u>> \notin X => Heard(r, w, u, "Confirmed")
        /\ \A u \in ToSet(mv.new) :
             <<w, u>> \notin X => Heard(r, w, u, IF u \in mv.mined THEN "Confirmed" ELSE "Mempool")
    BY <2>1, RecordPasses, Zenon
  <2> QED BY <2>1, <2>2 DEF p
<1>4. ASSUME view[t] # "absent"
      PROVE  /\ old[t] = "absent" => t \in ToSet(mv.new) /\ (t \in mv.mined <=> view[t] = "confirmed")
             /\ old[t] = "pending" /\ view[t] = "confirmed" => t \in ToSet(mv.confirmed)
             /\ <<w, t>> \notin X
  BY <1>4, MovesHave
<1>5. /\ old[t] \in Positions /\ view[t] \in Positions
      /\ old[t] = "confirmed" => view[t] = "confirmed"
  BY DEF StateGood, States, Views, Follows
<1>6. imported[t] = IF was[t] = "absent" THEN "absent"
                    ELSE IF view[t] = "confirmed" /\ was[t] = "pending" THEN "absent"
                    ELSE view[t]
  BY DEF ImportedAfter
<1>7. /\ old[t] = "pending" => Aware(mem.news, w, t, "Mempool") \/ was[t] # "absent"
      /\ old[t] = "confirmed" => Aware(mem.news, w, t, "Confirmed") \/ was[t] = "confirmed"
  BY DEF StateHeard
<1> HIDE DEF X, imported
<1>8. ASSUME view[t] = "pending" PROVE Heard(q, w, t, "Mempool") \/ imported[t] # "absent"
  <2>1. CASE old[t] = "absent"
    BY <1>3, <1>4, <1>8, <2>1
  <2>2. CASE old[t] = "pending" /\ Aware(mem.news, w, t, "Mempool")
    BY <1>3, <1>4, <1>8, <2>2 DEF Passes, Heard
  <2>3. CASE old[t] = "pending" /\ was[t] # "absent"
    BY <1>6, <1>8, <2>3
  <2> QED BY <1>5, <1>7, <1>8, <2>1, <2>2, <2>3 DEF Positions
<1>9. ASSUME view[t] = "confirmed" PROVE Heard(q, w, t, "Confirmed") \/ imported[t] = "confirmed"
  <2>1. CASE old[t] = "absent"
    BY <1>3, <1>4, <1>9, <2>1
  <2>2. CASE old[t] = "pending"
    BY <1>3, <1>4, <1>9, <2>2
  <2>3. CASE old[t] = "confirmed" /\ Aware(mem.news, w, t, "Confirmed")
    BY <1>3, <1>4, <1>9, <2>3 DEF Passes, Heard
  <2>4. CASE old[t] = "confirmed" /\ was[t] = "confirmed"
    BY <1>6, <1>9, <2>4
  <2> QED BY <1>5, <1>7, <2>1, <2>2, <2>3, <2>4 DEF Positions
<1> QED BY <1>8, <1>9 DEF q, imported

\* The other wallets: what is known of them is heard.
LEMMA OthersHeard ==
  ASSUME ~Reorgs, NEW S, StateGood(mem, S), now \in Nat, NEW w \in mem.wallets, w \in Wallets,
         NEW view \in Views, Consistent(view), Follows(mem.held[w], view),
         NEW mv \in Moves(w, view), NEW x, x # w, NEW t, NEW stage, Aware(mem.news, x, t, stage)
  PROVE  Heard(Record(mem.news, w, ~ mem.synced[w], mv, now), x, t, stage)
<1> DEFINE q == Record(mem.news, w, ~ mem.synced[w], mv, now)
           X == Rivals(w, ToSet(mv.new), ToSet(mv.before)) \cup {<<w, u>> : u \in ToSet(mv.gone)}
           H == HeldIn(mem.held)
           C == InBlocks([mem.held EXCEPT ![w] = view])
<1>1. MovesOK(mv, w, H, C) /\ PayloadOK(mem.news, mem.wallets, H, C, S)
  BY SyncRecords
<1>2. mem.synced[w] \in BOOLEAN /\ mem.news \in Payload
  BY DEF StateGood, States
<1>3. <<x, t>> \notin X
  BY DEF Rivals
<1> HIDE DEF H, C
<1>4. CASE mem.synced[w]
  <2>1. q = Record(mem.news, w, FALSE, mv, now)
    BY <1>4
  <2> HIDE DEF q
  <2>2. Passes(mem.news, q, X)
    <3> DEFINE p == mem.news
               W == mem.wallets
               r == Record(p, w, FALSE, mv, now)
    <3>1. PayloadOK(p, W, H, C, S) /\ MovesOK(mv, w, H, C) /\ w \in W /\ q = r
      BY <1>1, <2>1
    <3> HIDE DEF p, W
    <3>2. /\ Passes(p, r, X)
          /\ \A u \in ToSet(mv.confirmed) : <<w, u>> \notin X => Heard(r, w, u, "Confirmed")
          /\ \A u \in ToSet(mv.new) :
               <<w, u>> \notin X => Heard(r, w, u, IF u \in mv.mined THEN "Confirmed" ELSE "Mempool")
      BY <3>1, RecordPasses, Zenon
    <3> QED BY <3>1, <3>2 DEF p
  <2> HIDE DEF X
  <2> QED BY <1>3, <2>2 DEF Passes, Heard, q
<1>5. CASE ~mem.synced[w]
  <2> DEFINE none == {}
  <2>1. q = Expire(mem.news, now)
    BY <1>5 DEF Record
  <2> HIDE DEF q
  <2>2. Carries(mem.news, q, none) /\ <<x, t>> \notin none
    BY <1>2, <2>1, ExpirePasses
  <2> HIDE DEF none
  <2>3. Aware(q, x, t, stage)
    BY <2>2, CarriesAware
  <2> QED BY <2>3 DEF Heard, q
<1> QED BY <1>2, <1>4, <1>5

\* A sync swallows nothing.
LEMMA SyncHeard ==
  ASSUME ~Reorgs, NEW S, StateGood(mem, S), StateHeard(mem), now \in Nat,
         NEW w \in Wallets, Sync(w)
  PROVE  StateHeard(mem')
<1>1. PICK view \in Views : /\ Consistent(view) /\ Follows(mem.held[w], view)
                            /\ \E reread, mv : /\ mv \in Moves(w, view)
                                               /\ mem' = SyncedState(w, view, reread, mv)
  BY DEF Sync
<1>2. PICK reread, mv : mv \in Moves(w, view) /\ mem' = SyncedState(w, view, reread, mv)
  BY <1>1
<1>3. w \in mem.wallets /\ Len(mem'.news.announced) <= MaxRecord
  BY DEF Sync
<1> DEFINE W == mem.wallets
           held == [mem.held EXCEPT ![w] = view]
           G == HeldIn(held)
           C == InBlocks(held)
           back == {t \in Vanishing(mem.news, w) : view[t] # "absent"}
           recorded == Record(mem.news, w, ~ mem.synced[w], mv, now)
           settled == Settle(recorded, w, back, reread, now)
           none == {}
<1>4. mem \in States /\ mem.synced[w] \in BOOLEAN
  BY DEF StateGood, States
<1>5. PayloadOK(recorded, W, G, C, S)
  BY <1>1, <1>2, <1>3, SyncRecords
<1>6. mem' = [mem EXCEPT !.news = settled, !.held[w] = view, !.synced[w] = TRUE,
                         !.imported[w] = ImportedAfter(w, view)]
  BY <1>2 DEF SyncedState
<1> HIDE DEF G, C, back, recorded
<1>7. Passes(recorded, settled, none)
  BY <1>3, <1>5, SettlePasses
<1>8. settled \in Payload
  BY <1>3, <1>5, SettleKeeps DEF PayloadOK
<1> HIDE DEF settled
<1>9. /\ mem'.news = settled /\ mem'.wallets = W
      /\ mem'.held[w] = view /\ mem'.imported[w] = ImportedAfter(w, view)
      /\ \A x \in Wallets \ {w} : mem'.held[x] = mem.held[x] /\ mem'.imported[x] = mem.imported[x]
  BY <1>4, <1>6 DEF States
<1>10. ~(Len(settled.announced) >= ANNOUNCED_MAX)
  <2>1. /\ MaxRecord \in Nat /\ UNCLAIMED_MAX \in Nat \ {0} /\ ANNOUNCED_MAX \in Nat
        /\ MaxRecord + UNCLAIMED_MAX <= ANNOUNCED_MAX
    BY NewsAssumption, FeedAssumption
  <2>2. Len(settled.announced) \in Nat /\ Len(settled.announced) <= MaxRecord
    BY <1>3, <1>8, <1>9 DEF Payload
  <2> QED BY <2>1, <2>2
<1>11. ASSUME NEW x, NEW t, NEW stage, Heard(recorded, x, t, stage)
       PROVE  Aware(mem'.news, x, t, stage)
  BY <1>7, <1>9, <1>10, <1>11 DEF Passes, Heard, none
<1>12. ASSUME NEW x \in W, NEW t \in Txs, x # w
       PROVE  /\ mem'.held[x][t] = "pending" =>
                   Aware(mem'.news, x, t, "Mempool") \/ mem'.imported[x][t] # "absent"
              /\ mem'.held[x][t] = "confirmed" =>
                   Aware(mem'.news, x, t, "Confirmed") \/ mem'.imported[x][t] = "confirmed"
  <2>1. x \in Wallets \ {w}
    BY <1>4, <1>12 DEF States
  <2>2. mem'.held[x] = mem.held[x] /\ mem'.imported[x] = mem.imported[x]
    BY <1>9, <2>1
  <2>3. ASSUME NEW stage, Aware(mem.news, x, t, stage) PROVE Aware(mem'.news, x, t, stage)
    <3>1. Heard(recorded, x, t, stage)
      BY <1>1, <1>2, <1>3, <1>12, <2>3, OthersHeard DEF recorded
    <3> QED BY <1>11, <3>1
  <2> QED BY <2>2, <2>3 DEF StateHeard
<1>13. ASSUME NEW t \in Txs
       PROVE  /\ view[t] = "pending" =>
                   Aware(mem'.news, w, t, "Mempool") \/ mem'.imported[w][t] # "absent"
              /\ view[t] = "confirmed" =>
                   Aware(mem'.news, w, t, "Confirmed") \/ mem'.imported[w][t] = "confirmed"
  <2>1. CASE ~mem.synced[w]
    BY <1>9, <2>1 DEF ImportedAfter
  <2>2. CASE mem.synced[w]
    <3>1. /\ view[t] = "pending" =>
               Heard(recorded, w, t, "Mempool") \/ mem'.imported[w][t] # "absent"
          /\ view[t] = "confirmed" =>
               Heard(recorded, w, t, "Confirmed") \/ mem'.imported[w][t] = "confirmed"
      BY <1>1, <1>2, <1>3, <1>9, <2>2, SyncedHeard DEF recorded
    <3> QED BY <1>11, <3>1
  <2> QED BY <1>4, <2>1, <2>2
<1> QED BY <1>9, <1>12, <1>13 DEF StateHeard

\* Nor does a claim.
LEMMA ClaimHeard ==
  ASSUME NEW S, StateGood(mem, S), StateHeard(mem), NEW w \in Wallets, NEW max \in Maxima,
         ClaimNews(w, max)
  PROVE  StateHeard(mem')
<1> DEFINE W == mem.wallets
           H == HeldIn(mem.held)
           C == InBlocks(mem.held)
           spoken == Claimed(mem.news, w, max, now)
           news == Claim(mem.news, w, max, now)
<1>1. /\ mem \in States /\ PayloadOK(mem.news, W, H, C, S) /\ Recorded(mem.news.announced, W, S)
      /\ Len(mem.news.announced) + Len(mem.news.unclaimed) <= ANNOUNCED_MAX
  BY DEF StateGood
<1>2. w \in W /\ max \in Nat
  BY ClaimGood, FeedAssumption
<1>3. mem' = [mem EXCEPT !.news = news]
  BY DEF ClaimNews
<1> HIDE DEF H, C
<1>4. HandedOver(Expire(mem.news, now), spoken, news)
  BY <1>1, <1>2, ClaimKeeps
<1>5. mem.news \in Payload
  BY <1>1 DEF States
<1> HIDE DEF news, spoken
<1>6. /\ mem'.news = news /\ mem'.wallets = W /\ mem'.held = mem.held
      /\ mem'.imported = mem.imported
  BY <1>1, <1>3 DEF States
<1>7. \A x, t, stage : Aware(mem.news, x, t, stage) => Aware(news, x, t, stage)
  BY <1>4, <1>5, ClaimAware
<1> QED BY <1>6, <1>7 DEF StateHeard

\* Nor does the removal of another wallet.
LEMMA RemoveHeard ==
  ASSUME NEW S, StateGood(mem, S), StateHeard(mem), NEW w \in Wallets, RemoveWallet(w)
  PROVE  StateHeard(mem')
<1> DEFINE news == Purge(mem.news, w)
<1>1. mem \in States /\ mem.news \in Payload
  BY DEF StateGood, States
<1>2. mem' = [mem EXCEPT !.wallets = @ \ {w}, !.news = news, !.held[w] = Nothing,
                         !.synced[w] = FALSE, !.imported[w] = Nothing]
  BY <1>1 DEF RemoveWallet, States
<1>3. \A x, t, stage : x # w /\ Aware(mem.news, x, t, stage) => Aware(news, x, t, stage)
  BY <1>1, PurgeAware
<1> HIDE DEF news
<1>4. /\ mem'.news = news /\ mem'.wallets = mem.wallets \ {w}
      /\ \A x \in mem.wallets \ {w} : mem'.held[x] = mem.held[x] /\ mem'.imported[x] = mem.imported[x]
  BY <1>1, <1>2 DEF States
<1> QED BY <1>3, <1>4 DEF StateHeard

HeardIInv == NewsIInv /\ StateHeard(mem) /\ StateHeard(disk)

LEMMA HeardInit == Init => HeardIInv
<1> SUFFICES ASSUME Init PROVE HeardIInv
  OBVIOUS
<1>1. \A x \in Wallets, t \in Txs : InitialState.held[x][t] = "absent"
  BY DEF InitialState, Nothing
<1>2. StateHeard(InitialState)
  <2>1. InitialState.wallets = Wallets
    BY DEF InitialState
  <2> QED BY <1>1, <2>1 DEF StateHeard
<1>3. mem = InitialState /\ disk = InitialState
  BY DEF Init
<1> QED BY <1>2, <1>3, NewsInit DEF HeardIInv

LEMMA HeardNext ==
  ASSUME ~Reorgs, HeardIInv, [Next]_vars
  PROVE  HeardIInv'
<1> DEFINE S == SaidNews
<1>1. NewsIInv'
  BY NewsNext DEF HeardIInv
<1>2. StateGood(mem, S) /\ StateHeard(mem) /\ StateHeard(disk) /\ now \in Nat
  BY FeedAssumption DEF HeardIInv, NewsIInv, TypeOK
<1> HIDE DEF S
<1>3. ASSUME StateHeard(mem'), StateHeard(disk') PROVE HeardIInv'
  BY <1>1, <1>3 DEF HeardIInv, StateHeard, Aware, Known
<1>4. ASSUME NEW w \in Wallets, Sync(w) PROVE HeardIInv'
  <2>1. StateHeard(mem')
    BY <1>2, <1>4, SyncHeard
  <2>2. disk' = disk \/ disk' = mem'
    BY <1>4 DEF Sync
  <2> QED BY <1>2, <1>3, <2>1, <2>2
<1>5. ASSUME NEW w \in Wallets, NEW max \in Maxima, ClaimNews(w, max) PROVE HeardIInv'
  <2>1. StateHeard(mem')
    BY <1>2, <1>5, ClaimHeard
  <2>2. disk' = mem'
    BY <1>5 DEF ClaimNews
  <2> QED BY <1>3, <2>1, <2>2
<1>6. ASSUME NEW w \in Wallets, RemoveWallet(w) PROVE HeardIInv'
  <2>1. StateHeard(mem')
    BY <1>2, <1>6, RemoveHeard
  <2>2. disk' = mem'
    BY <1>6 DEF RemoveWallet
  <2> QED BY <1>3, <2>1, <2>2
<1>7. CASE Restart
  BY <1>2, <1>3, <1>7 DEF Restart
<1>8. CASE Tick
  BY <1>2, <1>3, <1>8 DEF Tick
<1>9. CASE UNCHANGED vars
  BY <1>2, <1>3, <1>9 DEF vars
<1> QED BY <1>4, <1>5, <1>6, <1>7, <1>8, <1>9 DEF Next

LEMMA HeardImplies == HeardIInv => NothingSwallowed
<1> SUFFICES ASSUME HeardIInv, NEW w \in mem.wallets, NEW t \in Txs
             PROVE  /\ mem.held[w][t] = "pending" =>
                         \/ \E stage \in {"Mempool", "Confirmed"} : Known(mem.news, w, t, stage)
                         \/ mem.imported[w][t] # "absent"
                    /\ mem.held[w][t] = "confirmed" =>
                         \/ Known(mem.news, w, t, "Confirmed")
                         \/ mem.imported[w][t] = "confirmed"
  BY DEF NothingSwallowed
<1> QED BY DEF HeardIInv, StateHeard, Aware

\* While blocks stay, what a wallet holds was said, or waits to be, or was
\* forgotten by age or by the limit, or came with the import: whatever order
\* the lists of a sync come in, and whichever claims, fee bumps, failing saves,
\* restarts and removals fall between two syncs (NothingSwallowed).
THEOREM NothingSwallowedHolds ==
  ASSUME ~Reorgs
  PROVE  Spec => []NothingSwallowed
<1>1. HeardIInv /\ [Next]_vars => HeardIInv'
  BY HeardNext
<1> QED BY <1>1, HeardInit, HeardImplies, PTL DEF Spec
=============================================================================
