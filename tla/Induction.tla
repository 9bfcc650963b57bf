------------------------------ MODULE Induction ------------------------------
(***************************************************************************)
(* Induction, in the form of the least-number principle, for the proofs      *)
(* about what a loop over a list computes.  The loops of the model are        *)
(* folds: a fold over a list of length n is the value at 1 .. n of the         *)
(* function, on the subsets of 1 .. n, that takes their greatest elements    *)
(* off one by one.                                                          *)
(***************************************************************************)
EXTENDS Naturals, FiniteSetsExt, WellFoundedInduction, TLAPS

\* A set of numbers that is not empty has a least element.
LEMMA LeastNumber ==
  ASSUME NEW T \in SUBSET Nat, T # {}
  PROVE  \E m \in T : \A k \in T : m <= k
<1> DEFINE R == OpToRel(<, Nat)
<1>1. IsWellFoundedOn(R, Nat)
  BY NatLessThanWellFounded
<1>2. \A x, y \in Nat : x < y => <<x, y>> \in R
  BY DEF OpToRel
<1> HIDE DEF R
<1>3. PICK m \in T : \A y \in T : ~(<<y, m>> \in R)
  BY <1>1, WFMin
<1>4. ASSUME NEW k \in T PROVE m <= k
  <2>1. ~(k < m)
    BY <1>2, <1>3, <1>4
  <2> QED
    BY <2>1
<1> QED
  BY <1>4

\* And, if it is bounded, a greatest one, which is its maximum.
LEMMA MaxFacts ==
  ASSUME NEW n \in Nat, NEW s \in SUBSET (1 .. n), s # {}
  PROVE  /\ Max(s) \in s
         /\ \A k \in s : k <= Max(s)
<1> DEFINE T == {n - k : k \in s}
<1>1. T \in SUBSET Nat /\ T # {}
  <2>1. \A k \in s : n - k \in Nat
    OBVIOUS
  <2>2. T \subseteq Nat
    BY <2>1
  <2>3. PICK k \in s : TRUE
    OBVIOUS
  <2>4. n - k \in T
    OBVIOUS
  <2> QED
    BY <2>2, <2>4
<1>2. PICK m \in T : \A k \in T : m <= k
  BY <1>1, LeastNumber
<1>3. PICK x \in s : m = n - x
  BY <1>2
<1>4. \A k \in s : x >= k
  <2> SUFFICES ASSUME NEW k \in s PROVE x >= k
    OBVIOUS
  <2>1. n - x <= n - k
    BY <1>2, <1>3
  <2> QED
    BY <2>1
<1>5. Max(s) \in s /\ \A k \in s : Max(s) >= k
  BY <1>4 DEF Max
<1> QED
  BY <1>5

LEMMA MaxOfSegment ==
  ASSUME NEW n \in Nat \ {0}
  PROVE  Max(1 .. n) = n /\ (1 .. n) \ {Max(1 .. n)} = 1 .. (n - 1)
<1>1. Max(1 .. n) \in 1 .. n /\ \A k \in 1 .. n : k <= Max(1 .. n)
  <2>1. 1 .. n \in SUBSET (1 .. n) /\ 1 \in 1 .. n
    OBVIOUS
  <2>2. 1 .. n # {}
    BY <2>1
  <2> QED
    BY <2>1, <2>2, MaxFacts
<1>2. Max(1 .. n) = n
  BY <1>1
<1>3. (1 .. n) \ {n} = 1 .. (n - 1)
  OBVIOUS
<1> QED
  BY <1>2, <1>3

\* Two functions that agree on the empty set, and on a set if they do on it less
\* its greatest element, agree on 1 .. n.
LEMMA FoldInduction ==
  ASSUME NEW n \in Nat, NEW F, NEW G, F[{}] = G[{}],
         \A s \in SUBSET (1 .. n) :
           s # {} /\ F[s \ {Max(s)}] = G[s \ {Max(s)}] => F[s] = G[s]
  PROVE  F[1 .. n] = G[1 .. n]
<1> DEFINE T == {m \in 0 .. n : F[1 .. m] # G[1 .. m]}
<1> SUFFICES ASSUME T # {} PROVE FALSE
  OBVIOUS
<1>1. PICK m \in T : \A k \in T : m <= k
  <2>1. T \in SUBSET Nat
    OBVIOUS
  <2> QED
    BY <2>1, LeastNumber
<1>2. m # 0
  <2>1. 1 .. 0 = {}
    OBVIOUS
  <2> QED
    BY <1>1, <2>1
<1>3. m - 1 \in 0 .. n /\ m - 1 \notin T
  BY <1>1, <1>2
<1>4. m \in Nat \ {0} /\ F[1 .. (m - 1)] = G[1 .. (m - 1)]
  BY <1>1, <1>2, <1>3
<1>5. (1 .. m) \ {Max(1 .. m)} = 1 .. (m - 1)
  BY <1>4, MaxOfSegment
<1>6. F[(1 .. m) \ {Max(1 .. m)}] = G[(1 .. m) \ {Max(1 .. m)}]
  BY <1>4, <1>5
<1>7. 1 .. m \in SUBSET (1 .. n)
  BY <1>1
<1>8. 1 .. m # {}
  <2>1. 1 \in 1 .. m
    BY <1>4
  <2> QED
    BY <2>1
<1>9. F[1 .. m] = G[1 .. m]
  BY <1>6, <1>7, <1>8
<1> QED
  BY <1>1, <1>9

\* What the greatest elements of s, taken off one by one, make of base.
IsFold(G, n, base, St) ==
  G = [s \in SUBSET (1 .. n) |->
         IF s = {} THEN base ELSE St[<<G[s \ {Max(s)}], Max(s)>>]]

\* A loop over 1 .. n whose step is the function St exists as a function on the
\* subsets, and stays in A if the step does.
LEMMA FoldExists ==
  ASSUME NEW n \in Nat, NEW A, NEW base \in A, NEW St,
         \A a \in A, k \in 1 .. n : St[<<a, k>>] \in A
  PROVE  \E G \in [SUBSET (1 .. n) -> A] : IsFold(G, n, base, St)
<1> DEFINE Good(m, G) ==
             /\ G \in [SUBSET (1 .. m) -> A]
             /\ \A s \in SUBSET (1 .. m) :
                  G[s] = IF s = {} THEN base ELSE St[<<G[s \ {Max(s)}], Max(s)>>]
           T == {m \in 0 .. n : \A G : ~Good(m, G)}
<1>1. T = {}
  <2> SUFFICES ASSUME T # {} PROVE FALSE
    OBVIOUS
  <2>1. PICK m \in T : \A k \in T : m <= k
    <3>1. T \in SUBSET Nat
      OBVIOUS
    <3> HIDE DEF T
    <3> QED
      BY <3>1, LeastNumber
  <2>2. m \in 0 .. n /\ \A G : ~Good(m, G)
    BY <2>1
  <2>3. m # 0
    <3> SUFFICES ASSUME m = 0 PROVE FALSE
      OBVIOUS
    <3> DEFINE G == [s \in SUBSET (1 .. 0) |-> base]
    <3>1. \A s \in SUBSET (1 .. 0) : s = {}
      OBVIOUS
    <3>2. Good(0, G)
      BY <3>1
    <3> QED
      BY <2>2, <3>2
  <2>4. m - 1 \in 0 .. n /\ m \in 1 .. n /\ m - 1 \notin T
    <3> HIDE DEF T
    <3>1. m - 1 \in 0 .. n /\ m \in 1 .. n
      BY <2>2, <2>3
    <3>2. ~(m <= m - 1)
      BY <3>1
    <3> QED
      BY <2>1, <3>1, <3>2
  <2>5. PICK f : Good(m - 1, f)
    <3> HIDE DEF Good
    <3> QED
      BY <2>4
  <2> DEFINE g == [s \in SUBSET (1 .. m) |->
                     IF m \in s THEN St[<<f[s \ {m}], m>>] ELSE f[s]]
  <2>6. ASSUME NEW s \in SUBSET (1 .. m), m \notin s PROVE s \in SUBSET (1 .. (m - 1))
    BY <2>4, <2>6
  <2>7. ASSUME NEW s \in SUBSET (1 .. m), m \in s
        PROVE  g[s] \in A /\ g[s] = St[<<g[s \ {Max(s)}], Max(s)>>]
    <3>1. Max(s) = m
      <4>1. Max(s) \in s /\ m <= Max(s)
        <5> HIDE DEF T
        <5>1. m \in Nat /\ s # {}
          BY <2>4, <2>7
        <5> QED
          BY <2>7, <5>1, MaxFacts
      <4> QED
        BY <2>4, <4>1
    <3>2. s \ {m} \in SUBSET (1 .. m) /\ m \notin s \ {m}
      OBVIOUS
    <3>3. s \ {m} \in SUBSET (1 .. (m - 1))
      BY <2>6, <3>2
    <3>4. g[s \ {m}] = f[s \ {m}] /\ f[s \ {m}] \in A
      BY <2>5, <3>2, <3>3
    <3> QED
      BY <2>4, <2>7, <3>1, <3>4
  <2>8. ASSUME NEW s \in SUBSET (1 .. m), m \notin s
        PROVE  /\ g[s] \in A
               /\ g[s] = IF s = {} THEN base ELSE St[<<g[s \ {Max(s)}], Max(s)>>]
    <3>1. s \in SUBSET (1 .. (m - 1)) /\ g[s] = f[s]
      BY <2>6, <2>8
    <3>2. s \ {Max(s)} \in SUBSET (1 .. m) /\ m \notin s \ {Max(s)}
      BY <2>8
    <3>3. g[s \ {Max(s)}] = f[s \ {Max(s)}]
      BY <3>2
    <3> QED
      BY <2>5, <3>1, <3>3
  <2>9. Good(m, g)
    <3>1. \A s \in SUBSET (1 .. m) :
            /\ g[s] \in A
            /\ g[s] = IF s = {} THEN base ELSE St[<<g[s \ {Max(s)}], Max(s)>>]
      BY <2>7, <2>8
    <3>2. g = [s \in SUBSET (1 .. m) |-> g[s]]
      OBVIOUS
    <3> HIDE DEF g
    <3> QED
      BY <3>1, <3>2
  <2> HIDE DEF g, Good
  <2> QED
    BY <2>2, <2>9
<1>2. PICK G : Good(n, G)
  <2> HIDE DEF Good
  <2> QED
    BY <1>1
<1>3. IsFold(G, n, base, St)
  BY <1>2 DEF IsFold
<1> QED
  BY <1>2, <1>3
=============================================================================
