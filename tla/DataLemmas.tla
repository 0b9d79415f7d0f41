----------------------------- MODULE DataLemmas -----------------------------
(***************************************************************************)
(* Naturals, sequences and recursive functions: what the proofs about them *)
(* share.                                                                  *)
(***************************************************************************)
EXTENDS Integers, Sequences, FiniteSets, TLAPS, SequenceTheorems, FiniteSetTheorems,
        WellFoundedInduction

-----------------------------------------------------------------------------
(* Naturals                                                                *)

LEMMA LeastExists ==
  ASSUME NEW T, T \subseteq Nat, T # {}
  PROVE  \E x \in T : \A y \in T : x <= y
<1> DEFINE R == OpToRel(<, Nat)
<1>1. IsWellFoundedOn(R, Nat)
  BY NatLessThanWellFounded
<1>2. \A x, y \in Nat : y < x => <<y, x>> \in R
  BY DEF OpToRel
<1> HIDE DEF R
<1>3. PICK x \in T : \A y \in T : <<y, x>> \notin R
  BY <1>1, WFMin
<1>4. ASSUME NEW y \in T
      PROVE  x <= y
  <2>1. x \in Nat /\ y \in Nat /\ ~(y < x)
    BY <1>2, <1>3
  <2> QED BY <2>1
<1> QED BY <1>4

LEMMA GreatestExists ==
  ASSUME NEW n \in Nat, NEW T, T \subseteq 0 .. n, T # {}
  PROVE  \E x \in T : \A y \in T : y <= x
<1>1. {n - x : x \in T} \subseteq Nat /\ {n - x : x \in T} # {}
  <2>1. \A x \in T : n - x \in Nat
    OBVIOUS
  <2>2. PICK x \in T : TRUE
    OBVIOUS
  <2>3. n - x \in {n - y : y \in T}
    OBVIOUS
  <2> QED BY <2>1, <2>3
<1>2. PICK m \in {n - x : x \in T} : \A k \in {n - x : x \in T} : m <= k
  BY <1>1, LeastExists
<1>3. PICK x \in T : m = n - x
  OBVIOUS
<1>4. ASSUME NEW y \in T
      PROVE  y <= x
  <2>1. n - x <= n - y
    BY <1>2, <1>3
  <2>2. x \in Int /\ y \in Int
    OBVIOUS
  <2> QED BY <2>1, <2>2
<1> QED BY <1>4

(* What holds of i and is passed on from each number to the next holds up  *)
(* to j: the set of those it holds of stands for the property.             *)
LEMMA Onward ==
  ASSUME NEW T, NEW i \in Nat, NEW j \in Nat, i \in T,
         \A k \in i .. j - 1 : k \in T => k + 1 \in T
  PROVE  \A k \in i .. j : k \in T
<1> DEFINE Without == {k \in Nat : k \in i .. j /\ k \notin T}
<1> SUFFICES ASSUME Without # {} PROVE FALSE
  OBVIOUS
<1>1. PICK k \in Without : \A l \in Without : k <= l
  BY LeastExists, Without \subseteq Nat
<1>2. k \in i .. j /\ k \notin T /\ k \in Nat /\ k # i
  OBVIOUS
<1>3. k - 1 \in i .. j - 1 /\ k - 1 \in Nat /\ k - 1 \in i .. j
  BY <1>2
<1>4. k - 1 \in T
  BY <1>1, <1>3
<1>5. (k - 1) + 1 \in T
  BY <1>3, <1>4
<1> QED BY <1>2, <1>5

-----------------------------------------------------------------------------
(* Recursive functions                                                     *)

(* f starts at base and goes on by step.                                   *)
Recurses(f, X, base, N, step) ==
  /\ f \in [0 .. N -> X] /\ f[0] = base
  /\ \A n \in 1 .. N : f[n] = step[<<f[n - 1], n>>]

LEMMA Recursion ==
  ASSUME NEW X, NEW base \in X, NEW N \in Nat, NEW step \in [X \X (1 .. N) -> X]
  PROVE  \E f : Recurses(f, X, base, N, step)
<1> DEFINE Goes(f, m) == /\ f \in [0 .. m -> X] /\ f[0] = base
                         /\ \A n \in 1 .. m : f[n] = step[<<f[n - 1], n>>]
           Ex(m) == \E f : Goes(f, m)
           T == {m \in Nat : Ex(m)}
<1>1. Goes([n \in 0 .. 0 |-> base], 0)
  OBVIOUS
<1>2. ASSUME NEW k \in 0 .. N - 1, Ex(k)
      PROVE  Ex(k + 1)
  <2>1. PICK f : Goes(f, k)
    BY <1>2
  <2> DEFINE g == [n \in 0 .. k + 1 |-> IF n <= k THEN f[n] ELSE step[<<f[k], k + 1>>]]
  <2>2. k \in Nat /\ k + 1 \in 1 .. N /\ f[k] \in X
    BY <2>1
  <2>3. step[<<f[k], k + 1>>] \in X
    BY <2>2
  <2>4. g \in [0 .. k + 1 -> X] /\ g[0] = base
    BY <2>1, <2>2, <2>3
  <2>5. ASSUME NEW n \in 1 .. k + 1
        PROVE  g[n] = step[<<g[n - 1], n>>]
    <3>1. n - 1 \in 0 .. k + 1 /\ n - 1 <= k /\ n \in 0 .. k + 1
      BY <2>2
    <3>2. g[n - 1] = f[n - 1]
      BY <3>1
    <3>3. CASE n <= k
      <4>1. g[n] = f[n] /\ n \in 1 .. k
        BY <3>1, <3>3
      <4> QED BY <4>1, <3>2, <2>1
    <3>4. CASE n = k + 1
      <4>1. n - 1 = k /\ g[n] = step[<<f[k], k + 1>>]
        BY <2>2, <3>1, <3>4
      <4> QED BY <4>1, <3>2, <3>4
    <3> QED BY <3>3, <3>4, <2>2
  <2> HIDE DEF g
  <2>6. Goes(g, k + 1)
    BY <2>4, <2>5
  <2> QED BY <2>6
<1>3. 0 \in T
  BY <1>1
<1>4. \A k \in 0 .. N - 1 : k \in T => k + 1 \in T
  <2> SUFFICES ASSUME NEW k \in 0 .. N - 1, k \in T PROVE k + 1 \in T
    OBVIOUS
  <2>1. Ex(k) /\ k + 1 \in Nat
    OBVIOUS
  <2> HIDE DEF Ex
  <2> QED BY <2>1, <1>2
<1> HIDE DEF T
<1>5. N \in T
  BY <1>3, <1>4, Onward, N \in 0 .. N
<1>6. PICK f : Goes(f, N)
  BY <1>5 DEF T
<1> QED BY <1>6 DEF Recurses

-----------------------------------------------------------------------------
(* Sequences                                                               *)

(* A function on 1 .. n is a sequence of n elements.                       *)
LEMMA FunctionSeq ==
  ASSUME NEW S, NEW n \in Nat, NEW f \in [1 .. n -> S]
  PROVE  f \in Seq(S) /\ Len(f) = n /\ \A i \in 1 .. n : f[i] \in S
OBVIOUS

(* w is u, then v.                                                         *)
LEMMA Joined ==
  ASSUME NEW S, NEW u \in Seq(S), NEW v \in Seq(S), NEW w, w = u \o v,
         NEW a \in Nat, NEW b \in Nat, a = Len(u), b = Len(v)
  PROVE  /\ w \in Seq(S) /\ Len(w) = a + b
         /\ \A k \in 1 .. a + b : w[k] = IF k <= a THEN u[k] ELSE v[k - a]
<1> DEFINE uv == u \o v
<1>1. /\ uv \in Seq(S) /\ Len(uv) = Len(u) + Len(v)
      /\ \A k \in 1 .. Len(u) + Len(v) : uv[k] = IF k <= Len(u) THEN u[k] ELSE v[k - Len(u)]
  BY ConcatProperties
<1>2. w = uv
  OBVIOUS
<1> HIDE DEF uv
<1> QED BY <1>1, <1>2
=============================================================================
