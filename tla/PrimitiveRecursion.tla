---------------------- MODULE PrimitiveRecursion ------------------------
(***************************************************************************)
(* A function defined by recursion on the natural numbers, f[0] = base and *)
(* f[i] = step[i, f[i - 1]], exists. The library's theorem about this has  *)
(* an operator as a parameter; here base and step are values, and what the *)
(* specifications define by recursion is an instance of it.                *)
(***************************************************************************)
EXTENDS Integers, WellFoundedInduction, TLAPS

(* A set of numbers that is not empty has a least one: induction, as what  *)
(* a smallest counterexample would contradict.                             *)
LEMMA LeastNumber ==
  ASSUME NEW T \in SUBSET Nat, T # {}
  PROVE  \E m \in T : \A k \in T : m <= k
  <1>1. PICK m \in T : \A k \in T : <<k, m>> \notin OpToRel(<, Nat)
    BY NatLessThanWellFounded, WFMin, Zenon
  <1>2. \A k \in T : ~(k < m)
    BY <1>1 DEF OpToRel
  <1>. QED
    BY <1>2

(* On the numbers of dom, f begins with base and goes on with step.        *)
Unfolding(f, dom, base, step) ==
    /\ f[0] = base
    /\ \A i \in dom \ {0} : f[i] = step[<<i, f[i - 1]>>]

(* There is a function that is defined by recursion: for every n there is  *)
(* one up to n, and each of them agrees with the next.                     *)
LEMMA FunctionExists ==
  ASSUME NEW S, NEW base \in S, NEW step \in [Nat \X S -> S]
  PROVE  \E f \in [Nat -> S] : Unfolding(f, Nat, base, step)
  <1>. DEFINE Upto(n) == {g \in [0..n -> S] : Unfolding(g, 0..n, base, step)}
  <1>1. \A n \in Nat : Upto(n) # {}
    <2>. DEFINE T == {n \in Nat : Upto(n) = {}}
    <2>. SUFFICES ASSUME T # {} PROVE FALSE
      OBVIOUS
    <2>1. PICK m \in T : \A k \in T : m <= k
      <3>1. T \in SUBSET Nat
        OBVIOUS
      <3>. HIDE DEF T
      <3>. QED BY <3>1, LeastNumber
    <2>2. CASE m = 0
      <3>1. [i \in 0..0 |-> base] \in Upto(0)
        BY DEF Unfolding
      <3>. QED BY <2>2, <3>1
    <2>3. CASE m # 0
      <3>1. m - 1 \in Nat /\ m - 1 \notin T /\ m \in Nat
        BY <2>1, <2>3
      <3>2. PICK g \in Upto(m - 1) : TRUE
        BY <3>1
      <3>. DEFINE h == [i \in 0..m |-> IF i = m THEN step[<<m, g[m - 1]>>] ELSE g[i]]
      <3>3. \A i \in 0..(m - 1) : g[i] \in S
        BY <3>1, <3>2
      <3>4. \A i \in 0..m : i # m => i \in 0..(m - 1)
        BY <3>1
      <3>5. m - 1 \in 0..(m - 1)
        BY <3>1
      <3>6. h \in [0..m -> S]
        BY <3>1, <3>3, <3>4, <3>5
      <3>7. h[0] = base
        BY <2>3, <3>1, <3>2 DEF Unfolding
      <3>8. ASSUME NEW i \in (0..m) \ {0} PROVE h[i] = step[<<i, h[i - 1]>>]
        <4>1. h[i - 1] = g[i - 1]
          BY <3>1
        <4>2. CASE i = m
          BY <4>1, <4>2
        <4>3. CASE i # m
          <5>1. i \in (0..(m - 1)) \ {0}
            BY <3>1, <4>3
          <5>2. g[i] = step[<<i, g[i - 1]>>]
            BY <3>2, <5>1 DEF Unfolding
          <5>. QED BY <4>1, <4>3, <5>2
        <4>. QED BY <4>2, <4>3
      <3>9. h \in Upto(m)
        BY <3>6, <3>7, <3>8 DEF Unfolding
      <3>. QED BY <2>1, <3>9
    <2>. QED BY <2>2, <2>3
  <1>2. ASSUME NEW n \in Nat, NEW g \in Upto(n), NEW h \in Upto(n + 1)
        PROVE  g[n] = h[n]
    <2>. DEFINE T == {i \in 0..n : g[i] # h[i]}
    <2>. SUFFICES ASSUME T # {} PROVE FALSE
      BY <1>2
    <2>1. PICK m \in T : \A k \in T : m <= k
      <3>1. T \in SUBSET Nat
        OBVIOUS
      <3>. HIDE DEF T
      <3>. QED BY <3>1, LeastNumber
    <2>2. m # 0
      BY <2>1 DEF Unfolding
    <2>3. m - 1 \in 0..n /\ m - 1 \notin T
      BY <2>1, <2>2
    <2>4. g[m] = step[<<m, g[m - 1]>>]
      BY <2>1, <2>2 DEF Unfolding
    <2>5. h[m] = step[<<m, h[m - 1]>>]
      BY <2>1, <2>2 DEF Unfolding
    <2>. QED BY <2>1, <2>3, <2>4, <2>5
  <1>. DEFINE pick == [n \in Nat |-> CHOOSE g \in Upto(n) : TRUE]
              f == [n \in Nat |-> pick[n][n]]
  <1>3. \A n \in Nat : pick[n] \in Upto(n)
    BY <1>1
  <1>. HIDE DEF pick
  <1>4. f \in [Nat -> S]
    <2>1. ASSUME NEW n \in Nat PROVE pick[n][n] \in S
      BY <1>3, n \in 0..n
    <2>. QED BY <2>1
  <1>5. f[0] = base
    BY <1>3 DEF Unfolding
  <1>6. ASSUME NEW i \in Nat \ {0} PROVE f[i] = step[<<i, f[i - 1]>>]
    <2>1. i - 1 \in Nat /\ (i - 1) + 1 = i /\ i \in (0..i) \ {0}
      BY <1>6
    <2>2. pick[i - 1] \in Upto(i - 1) /\ pick[i] \in Upto((i - 1) + 1)
      BY <1>3, <2>1
    <2>3. pick[i - 1][i - 1] = pick[i][i - 1]
      BY <1>2, <2>1, <2>2
    <2>4. pick[i][i] = step[<<i, pick[i][i - 1]>>]
      BY <1>3, <2>1 DEF Unfolding
    <2>. QED BY <2>1, <2>3, <2>4
  <1>. QED
    BY <1>4, <1>5, <1>6 DEF Unfolding
==========================================================================
