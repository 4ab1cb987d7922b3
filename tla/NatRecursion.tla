--------------------------- MODULE NatRecursion ---------------------------
(***************************************************************************)
(* Induction and recursion over the natural numbers, stated with sets and  *)
(* functions where the library's theorems have operators: what is proved   *)
(* for all k \in Nat is the set of the k for which it holds, and the step  *)
(* of a recursion is a function from the value before to the next.         *)
(***************************************************************************)
EXTENDS Integers, TLAPS, WellFoundedInduction

\* A non-empty set of natural numbers has a least element.
LEMMA LeastExists ==
  ASSUME NEW S \in SUBSET Nat, S # {}
  PROVE  \E x \in S : \A y \in S : x <= y
<1>1. PICK x \in S : \A y \in S : ~(<<y, x>> \in OpToRel(<, Nat))
  BY NatLessThanWellFounded, WFMin, Zenon
<1>2. ASSUME NEW y \in S PROVE x <= y
  <2>1. x \in Nat /\ y \in Nat
    OBVIOUS
  <2>2. ~(y < x)
    BY <1>1, <2>1, Zenon DEF OpToRel
  <2>3. QED
    BY <2>1, <2>2
<1>3. QED
  BY <1>2

\* Induction over the natural numbers, for a set instead of a predicate.
LEMMA SetInduction ==
  ASSUME NEW S, 0 \in S, \A k \in Nat : k \in S => k + 1 \in S
  PROVE  Nat \subseteq S
<1> SUFFICES ASSUME Nat \ S # {} PROVE FALSE
  OBVIOUS
<1>1. PICK x \in Nat \ S : \A y \in Nat \ S : x <= y
  BY LeastExists
<1>2. x # 0 /\ x \in Nat
  OBVIOUS
<1>3. x - 1 \in Nat /\ ~(x <= x - 1) /\ (x - 1) + 1 = x
  BY <1>2
<1>4. x - 1 \in S
  BY <1>1, <1>3
<1>5. QED
  BY <1>3, <1>4

\* A value for each step from 0 to n, each made of the one before.
LEMMA RecursionExists ==
  ASSUME NEW V, NEW v \in V, NEW n \in Nat, NEW step \in [1..n -> [V -> V]]
  PROVE  \E g \in [0..n -> V] : g[0] = v /\ \A k \in 1..n : g[k] = step[k][g[k - 1]]
<1> DEFINE Upto(g, m) == /\ g \in [0..m -> V] /\ g[0] = v
                         /\ \A k \in 1..m : g[k] = step[k][g[k - 1]]
           S == {m \in Nat : m <= n => \E g : Upto(g, m)}
<1>1. 0 \in S
  <2>1. Upto([k \in 0..0 |-> v], 0)
    OBVIOUS
  <2>2. QED
    BY <2>1
<1>2. ASSUME NEW m \in Nat, m \in S PROVE m + 1 \in S
  <2> SUFFICES ASSUME m + 1 <= n PROVE \E g : Upto(g, m + 1)
    OBVIOUS
  <2>1. PICK g : Upto(g, m)
    BY <1>2
  <2> DEFINE h == [k \in 0..m + 1 |-> IF k = m + 1 THEN step[k][g[m]] ELSE g[k]]
  <2>2. g[m] \in V /\ step[m + 1] \in [V -> V]
    BY <2>1
  <2>3. step[m + 1][g[m]] \in V
    BY <2>2
  <2>4. h \in [0..m + 1 -> V]
    BY <2>1, <2>3
  <2>5. h[0] = v
    BY <2>1
  <2>6. ASSUME NEW k \in 1..m + 1 PROVE h[k] = step[k][h[k - 1]]
    <3>1. CASE k = m + 1
      <4>1. h[k] = step[k][g[m]] /\ h[m] = g[m] /\ k - 1 = m
        BY <3>1
      <4>2. QED
        BY <4>1
    <3>2. CASE k # m + 1
      <4>1. h[k] = g[k] /\ h[k - 1] = g[k - 1] /\ k \in 1..m
        BY <3>2
      <4>2. QED
        BY <4>1, <2>1
    <3>3. QED
      BY <3>1, <3>2
  <2>7. Upto(h, m + 1)
    BY <2>4, <2>5, <2>6
  <2>8. QED
    BY <2>7
<1>3. Nat \subseteq S
  <2> HIDE DEF S
  <2>1. QED
    BY <1>1, <1>2, SetInduction
<1>4. QED
  BY <1>3

\* The same with a name for what there is.
IsRecursion(g, V, v, n, step) ==
  g \in [0..n -> V] /\ g[0] = v /\ \A k \in 1..n : g[k] = step[k][g[k - 1]]

LEMMA RecursionIs ==
  ASSUME NEW V, NEW v \in V, NEW n \in Nat, NEW step \in [1..n -> [V -> V]]
  PROVE  \E g : IsRecursion(g, V, v, n, step)
BY RecursionExists DEF IsRecursion

\* Whatever satisfies the equations has its values in V.
LEMMA RecursionType ==
  ASSUME NEW V, NEW n \in Nat, NEW g, g[0] \in V, \A k \in 1..n : g[k - 1] \in V => g[k] \in V
  PROVE  \A k \in 0..n : g[k] \in V
<1> DEFINE S == {m \in Nat : m <= n => g[m] \in V}
<1>1. 0 \in S
  OBVIOUS
<1>2. ASSUME NEW m \in Nat, m \in S PROVE m + 1 \in S
  <2> SUFFICES ASSUME m + 1 <= n PROVE g[m + 1] \in V
    OBVIOUS
  <2>1. m + 1 \in 1..n /\ (m + 1) - 1 = m /\ g[m] \in V
    BY <1>2
  <2>2. QED
    BY <2>1
<1>3. Nat \subseteq S
  <2> HIDE DEF S
  <2>1. QED
    BY <1>1, <1>2, SetInduction
<1>4. QED
  BY <1>3

=============================================================================
