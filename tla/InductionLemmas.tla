--------------------------- MODULE InductionLemmas ---------------------------
(***************************************************************************)
(* Induction over data for the provers: the induction theorems of the      *)
(* library take the formula to be proved as an operator, which no backend  *)
(* can instantiate.  Here it is a set of naturals, those for which it      *)
(* holds, and the step of a recursion is a function.                       *)
(***************************************************************************)
EXTENDS Integers, FiniteSetTheorems, WellFoundedInduction, TLAPS

(* A set of naturals that is not empty has a least member.  It comes from  *)
(* the intervals 0 .. n - 1, which strict inclusion orders well.           *)
LEMMA LeastNatural ==
  ASSUME NEW T \in SUBSET Nat, T # {}
  PROVE  \E x \in T : \A y \in T : x <= y
  <1> DEFINE Below(n) == 0 .. n - 1
             Belows == {Below(n) : n \in T}
  <1>1. Belows \subseteq FiniteSubsetsOf(Nat)
    <2>1. \A n \in Nat : IsFiniteSet(0 .. n - 1) /\ 0 .. n - 1 \subseteq Nat
      BY FS_Interval
    <2> QED BY <2>1 DEF FiniteSubsetsOf
  <1>2. PICK B \in Belows : \A C \in Belows : <<C, B>> \notin StrictSubsetOrdering(Nat)
    <2>1. Belows # {}
      OBVIOUS
    <2>2. IsWellFoundedOn(StrictSubsetOrdering(Nat), FiniteSubsetsOf(Nat))
      BY FS_StrictSubsetOrderingWellFounded
    <2> HIDE DEF Belows
    <2> QED BY <1>1, <2>1, <2>2, WFMin
  <1>3. PICK x \in T : B = Below(x)
    BY <1>2
  <1>4. ASSUME NEW y \in T PROVE x <= y
    <2>1. SUFFICES ASSUME y < x PROVE FALSE
      OBVIOUS
    <2>2. Below(y) \subseteq Below(x) /\ Below(y) # Below(x)
      <3>1. y \in Below(x) /\ y \notin Below(y)
        BY <2>1
      <3> QED BY <2>1, <3>1
    <2>3. <<Below(y), Below(x)>> \in StrictSubsetOrdering(Nat)
      BY <2>2 DEF StrictSubsetOrdering
    <2> QED BY <2>3, <1>2, <1>3
  <1> QED BY <1>4

(* Induction: a set of naturals with zero, and with the successor of each  *)
(* of its members, is all of them.                                         *)
LEMMA SetInduction ==
  ASSUME NEW P \in SUBSET Nat, 0 \in P, \A n \in P : n + 1 \in P
  PROVE  P = Nat
  <1>1. SUFFICES ASSUME Nat \ P # {} PROVE FALSE
    OBVIOUS
  <1>2. PICK x \in Nat \ P : \A y \in Nat \ P : x <= y
    BY <1>1, LeastNatural
  <1>3. x - 1 \in P
    BY <1>2
  <1> QED BY <1>2, <1>3

(* Induction up to a bound.                                                *)
LEMMA BoundedInduction ==
  ASSUME NEW N \in Nat, NEW P \in SUBSET (0 .. N), 0 \in P,
         \A n \in P : n < N => n + 1 \in P
  PROVE  P = 0 .. N
  <1> DEFINE Q == {n \in Nat : n <= N => n \in P}
  <1>1. Q \in SUBSET Nat /\ 0 \in Q /\ \A n \in Q : n + 1 \in Q
    OBVIOUS
  <1> HIDE DEF Q
  <1>2. Q = Nat
    BY <1>1, SetInduction
  <1>3. ASSUME NEW n \in 0 .. N PROVE n \in P
    <2>1. n \in Q
      BY <1>2
    <2> QED BY <2>1 DEF Q
  <1> QED BY <1>3

(* A function on 0 .. N that is defined by a first value and by a step     *)
(* from each value to the next exists.                                     *)
Recursive(S, first, N, step) ==
  \E f \in [0 .. N -> S] : f[0] = first /\ \A n \in 1 .. N : f[n] = step[n][f[n - 1]]

LEMMA Recursion ==
  ASSUME NEW S, NEW first \in S, NEW N \in Nat, NEW step \in [1 .. N -> [S -> S]]
  PROVE  Recursive(S, first, N, step)
  <1> DEFINE Follows(f, n) ==
               f[0] = first /\ \A i \in 1 .. n : f[i] = step[i][f[i - 1]]
             P == {n \in 0 .. N : \E f \in [0 .. n -> S] : Follows(f, n)}
  <1>1. 0 \in P
    <2>1. [i \in 0 .. 0 |-> first] \in [0 .. 0 -> S]
      OBVIOUS
    <2>2. Follows([i \in 0 .. 0 |-> first], 0)
      OBVIOUS
    <2> HIDE DEF Follows
    <2> QED BY <2>1, <2>2
  <1>2. ASSUME NEW n \in P, n < N PROVE n + 1 \in P
    <2>1. PICK f \in [0 .. n -> S] : Follows(f, n)
      OBVIOUS
    <2> DEFINE g == [i \in 0 .. n + 1 |-> IF i <= n THEN f[i] ELSE step[n + 1][f[n]]]
    <2>2. step[n + 1][f[n]] \in S
      BY <1>2
    <2>3. g \in [0 .. n + 1 -> S]
      BY <2>2
    <2>4. g[0] = first
      BY <2>1
    <2>5. ASSUME NEW i \in 1 .. n + 1 PROVE g[i] = step[i][g[i - 1]]
      <3>1. CASE i = n + 1
        <4>1. g[i] = step[n + 1][f[n]] /\ g[i - 1] = f[n]
          BY <3>1
        <4> QED BY <3>1, <4>1
      <3>2. CASE i # n + 1
        <4>1. i \in 1 .. n /\ g[i] = f[i] /\ g[i - 1] = f[i - 1]
          BY <3>2
        <4> HIDE DEF g
        <4> QED BY <2>1, <4>1
      <3> QED BY <3>1, <3>2
    <2>6. Follows(g, n + 1)
      BY <2>4, <2>5
    <2> HIDE DEF Follows, g
    <2> QED BY <1>2, <2>3, <2>6
  <1>3. P = 0 .. N
    <2>1. P \in SUBSET (0 .. N)
      OBVIOUS
    <2> HIDE DEF P
    <2> QED BY <1>1, <1>2, <2>1, BoundedInduction
  <1>4. PICK f \in [0 .. N -> S] : Follows(f, N)
    <2> HIDE DEF Follows
    <2>1. N \in P
      <3> HIDE DEF P
      <3> QED BY <1>3
    <2> QED BY <2>1
  <1> QED BY <1>4 DEF Recursive

-----------------------------------------------------------------------------
(* Division with remainder.                                                *)
LEMMA Remainder ==
  ASSUME NEW h \in Nat, NEW n \in Nat \ {0}
  PROVE  h % n \in 0 .. n - 1 /\ h \div n \in Nat /\ h = n * (h \div n) + (h % n)
  OBVIOUS

LEMMA RemainderUnique ==
  ASSUME NEW h \in Nat, NEW n \in Nat \ {0}, NEW a \in Nat, NEW r \in 0 .. n - 1,
         h = n * a + r
  PROVE  h % n = r
  OBVIOUS

(* Halving the number of buckets drops the upper half of the remainder.    *)
LEMMA HalvedRemainder ==
  ASSUME NEW h \in Nat, NEW n \in Nat \ {0}
  PROVE  (h % (2 * n)) % n = h % n
  <1> DEFINE a == h \div (2 * n)
             r == h % (2 * n)
             b == r \div n
             s == r % n
  <1>1. 2 * n \in Nat \ {0}
    OBVIOUS
  <1>2. a \in Nat /\ r \in Nat /\ h = (2 * n) * a + r
    <2> DEFINE m == 2 * n
    <2>1. m \in Nat \ {0}
      OBVIOUS
    <2> HIDE DEF m
    <2>2. h % m \in 0 .. m - 1 /\ h \div m \in Nat /\ h = m * (h \div m) + (h % m)
      BY <2>1, Remainder
    <2>3. h % m \in Nat
      BY <2>1, <2>2
    <2> QED BY <2>2, <2>3 DEF m
  <1>3. b \in Nat /\ s \in 0 .. n - 1 /\ r = n * b + s
    BY <1>2, Remainder
  <1> HIDE DEF a, b, s, r
  <1>4. h = n * (2 * a + b) + s
    BY <1>2, <1>3
  <1>5. h % n = s
    BY <1>2, <1>3, <1>4, 2 * a + b \in Nat, RemainderUnique
  <1> QED BY <1>5 DEF s, r
=============================================================================
