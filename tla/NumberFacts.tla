----------------------------- MODULE NumberFacts -----------------------------
(***************************************************************************)
(* Facts about numbers the proofs of several components rest on.  A set of *)
(* naturals has a least one: from that follow a minimum and a maximum,     *)
(* what holds after any number of turns (Turns), and that a recursive      *)
(* function exists (Iterates), which gives its equation.                   *)
(***************************************************************************)
EXTENDS Integers, FiniteSetsExt, WellFoundedInduction, TLAPS

(* A set of natural numbers has a least one.                               *)
LEMMA LeastNumber ==
  ASSUME NEW T, T \subseteq Nat, T # {}
  PROVE  \E x \in T : \A y \in T : x <= y
<1>1. PICK x \in T : \A y \in T : ~(<<y, x>> \in OpToRel(<, Nat))
      BY NatLessThanWellFounded, WFMin
<1>2. \A y \in T : ~(y < x)
      BY <1>1 DEF OpToRel
<1> QED BY <1>2

LEMMA MinIsLeast ==
  ASSUME NEW T, T \subseteq Nat, T # {}
  PROVE  Min(T) \in T /\ \A y \in T : Min(T) <= y
BY LeastNumber DEF Min

(* A set of numbers that is bounded has a greatest one.                    *)
LEMMA MaxIsGreatest ==
  ASSUME NEW N \in Nat, NEW T, T \subseteq 0 .. N, T # {}
  PROVE  Max(T) \in T /\ \A y \in T : y <= Max(T)
<1> DEFINE D == {N - x : x \in T}
<1>1. D \subseteq Nat /\ D # {}
  <2>1. \A x \in T : N - x \in Nat
        OBVIOUS
  <2> QED BY <2>1
<1>2. PICK d \in D : \A y \in D : d <= y
      BY <1>1, LeastNumber
<1>3. PICK x \in T : d = N - x
      BY <1>2
<1>4. \A y \in T : x >= y
  <2> TAKE y \in T
  <2>1. N - y \in D /\ x \in Nat /\ y \in Nat
        OBVIOUS
  <2>2. N - x <= N - y
        BY <1>2, <1>3, <2>1
  <2> QED BY <2>1, <2>2
<1> QED BY <1>3, <1>4 DEF Max

(* What holds at first and after each turn holds after N of them.          *)
LEMMA Turns ==
  ASSUME NEW N \in Nat, NEW T, 0 \in T, \A k \in 0 .. N - 1 : k \in T => k + 1 \in T
  PROVE  \A k \in 0 .. N : k \in T
<1> DEFINE Bad == {k \in 0 .. N : k \notin T}
<1>1. SUFFICES ASSUME Bad # {} PROVE FALSE
      OBVIOUS
<1>2. PICK k \in Bad : \A j \in Bad : k <= j
  <2>1. Bad \subseteq Nat
        OBVIOUS
  <2> QED BY <1>1, <2>1, LeastNumber
<1>3. k # 0 /\ k - 1 \in 0 .. N - 1
      BY <1>2
<1>4. k - 1 \in T
      BY <1>2, <1>3
<1>5. (k - 1) + 1 \in T
      BY <1>3, <1>4
<1> QED BY <1>2, <1>5

(* A function defined by its value at 0 and by a turn exists.              *)
Iterated(f, N, S, b, G) ==
  /\ f \in [0 .. N -> S]
  /\ f[0] = b
  /\ \A k \in 1 .. N : f[k] = G[<<k, f[k - 1]>>]

LEMMA Iterates ==
  ASSUME NEW N \in Nat, NEW S, NEW b \in S, NEW G, G \in [(1 .. N) \X S -> S]
  PROVE  \E f : Iterated(f, N, S, b, G)
<1> DEFINE Upto(f, n) == /\ f \in [0 .. n -> S]
                         /\ f[0] = b
                         /\ \A k \in 1 .. n : f[k] = G[<<k, f[k - 1]>>]
           T == {n \in 0 .. N : \E f : Upto(f, n)}
<1>1. 0 \in T
  <2> DEFINE f == [k \in 0 .. 0 |-> b]
  <2>1. Upto(f, 0)
        OBVIOUS
  <2> HIDE DEF f
  <2>2. 0 \in 0 .. N
        OBVIOUS
  <2> QED BY <2>1, <2>2
<1>2. ASSUME NEW n \in 0 .. N - 1, n \in T
      PROVE  n + 1 \in T
  <2>1. PICK g : Upto(g, n)
        BY <1>2
  <2> DEFINE m == n + 1
             last == G[<<m, g[n]>>]
             f == [k \in 0 .. m |-> IF k <= n THEN g[k] ELSE last]
  <2>2. m \in 1 .. N /\ n = m - 1 /\ n \in 0 .. n /\ n \in Nat
        OBVIOUS
  <2>3. g[n] \in S
        BY <2>1, <2>2
  <2>4. last \in S
        BY <2>2, <2>3
  <2> HIDE DEF last, m
  <2>5. \A k \in 0 .. m : f[k] = IF k <= n THEN g[k] ELSE last
        OBVIOUS
  <2>6. f \in [0 .. m -> S]
    <3>1. \A k \in 0 .. m : k <= n => k \in 0 .. n
          BY <2>2
    <3>2. \A k \in 0 .. m : (IF k <= n THEN g[k] ELSE last) \in S
          BY <2>1, <2>4, <3>1
    <3> QED BY <3>2
  <2> HIDE DEF f
  <2>7. f[0] = b
        BY <2>1, <2>2, <2>5
  <2>8. ASSUME NEW k \in 1 .. m
        PROVE  f[k] = G[<<k, f[k - 1]>>]
    <3>1. k \in 0 .. m /\ k - 1 \in 0 .. m /\ k - 1 <= n
          BY <2>2
    <3>2. f[k - 1] = g[k - 1]
          BY <2>5, <3>1
    <3>3. CASE k <= n
      <4>1. k \in 1 .. n
            BY <3>3
      <4>2. f[k] = g[k] /\ g[k] = G[<<k, g[k - 1]>>]
            BY <2>1, <2>5, <3>1, <3>3, <4>1
      <4> QED BY <3>2, <4>2
    <3>4. CASE k = m
      <4>1. k - 1 = n /\ ~(k <= n)
            BY <2>2, <3>4
      <4>2. f[k] = last
            BY <2>5, <3>1, <4>1
      <4>3. last = G[<<k, g[k - 1]>>]
            BY <3>4, <4>1 DEF last
      <4> QED BY <3>2, <4>2, <4>3
    <3> QED BY <3>3, <3>4, <2>2
  <2>9. Upto(f, m)
        BY <2>6, <2>7, <2>8
  <2>10. m \in T
        BY <2>2, <2>9
  <2> QED BY <2>10 DEF m
<1>3. \A n \in 0 .. N : n \in T
  <2> HIDE DEF T
  <2> QED BY <1>1, <1>2, Turns
<1>4. N \in T
      BY <1>3
<1> QED BY <1>4 DEF Iterated
=============================================================================
