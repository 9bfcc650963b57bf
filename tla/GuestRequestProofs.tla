------------------------- MODULE GuestRequestProofs -------------------------
(***************************************************************************)
(* Proofs about GuestRequest, for command lines of any length over any        *)
(* names, any working directory and any configured mount root: what the      *)
(* loop of filepath.Clean leaves of a path is where the walk ends.           *)
(***************************************************************************)
EXTENDS GuestRequest, Integers, FiniteSetTheorems, SequenceTheorems, Induction

-----------------------------------------------------------------------------
(* The loop, step by step.                                                  *)

LEMMA LastOf ==
  ASSUME NEW S, NEW acc \in Seq(S), acc # << >>
  PROVE  /\ Len(acc) \in Nat \ {0} /\ Last(acc) = acc[Len(acc)] /\ Last(acc) \in S
         /\ Front(acc) \in Seq(S) /\ Len(Front(acc)) = Len(acc) - 1
         /\ \A i \in 1 .. Len(acc) - 1 : Front(acc)[i] = acc[i]
<1>1. Len(acc) \in Nat \ {0} /\ \A i \in 1 .. Len(acc) : acc[i] \in S
  BY EmptySeq, ElementOfSeq
<1>2. Last(acc) = acc[Len(acc)] /\ Last(acc) \in S
  BY <1>1 DEF Last
<1>3. 1 \in Int /\ Len(acc) - 1 \in Int /\ \A i \in 1 .. Len(acc) - 1 : acc[i] \in S
  BY <1>1
<1>4. /\ Front(acc) \in Seq(S)
      /\ Len(Front(acc)) = IF 1 <= Len(acc) - 1 THEN Len(acc) - 1 - 1 + 1 ELSE 0
      /\ \A i \in 1 .. Len(acc) - 1 - 1 + 1 : Front(acc)[i] = acc[1 + i - 1]
  BY <1>3, SubSeqProperties DEF Front
<1>5. /\ Len(Front(acc)) = Len(acc) - 1
      /\ \A i \in 1 .. Len(acc) - 1 : Front(acc)[i] = acc[i]
  <2>1. Len(Front(acc)) = Len(acc) - 1
    <3>1. PICK m \in Nat \ {0} : m = Len(acc)
      BY <1>1
    <3>2. (IF 1 <= m - 1 THEN m - 1 - 1 + 1 ELSE 0) = m - 1
      OBVIOUS
    <3> QED
      BY <1>4, <3>1, <3>2
  <2>2. ASSUME NEW i \in 1 .. Len(acc) - 1 PROVE Front(acc)[i] = acc[i]
    <3>1. i \in 1 .. Len(acc) - 1 - 1 + 1 /\ 1 + i - 1 = i
      BY <1>1
    <3> QED
      BY <1>4, <3>1
  <2> QED
    BY <1>4, <2>1, <2>2
<1> QED
  BY <1>1, <1>2, <1>4, <1>5

LEMMA PushStays ==
  ASSUME NEW S, NEW acc \in Seq(S), NEW s \in S, NEW abs
  PROVE  Push(abs, acc, s) \in Seq(S)
<1>1. Append(acc, s) \in Seq(S)
  OBVIOUS
<1>2. acc # << >> => Front(acc) \in Seq(S)
  BY LastOf
<1> QED
  BY <1>1, <1>2, Zenon DEF Push

\* The values of acc: after k segments it is f[k].
IsRun(f, p) ==
  /\ f[0] = << >>
  /\ \A k \in 0 .. Len(p) - 1 : f[k + 1] = Push(IsAbs(p), f[k], p[k + 1])

LEMMA CleanRun ==
  ASSUME NEW S, NEW p \in Seq(S)
  PROVE  \E f \in [0 .. Len(p) -> Seq(S)] :
           IsRun(f, p) /\ Clean(p) = [abs |-> IsAbs(p), parts |-> f[Len(p)]]
<1> DEFINE n == Len(p)
           A == Seq(S)
           St == [z \in A \X (1 .. n) |-> Push(IsAbs(p), z[1], p[z[2]])]
           base == << >>
           F == CHOOSE iter : iter = [s \in SUBSET DOMAIN p |->
                  IF s = {} THEN base ELSE Push(IsAbs(p), iter[s \ {Max(s)}], p[Max(s)])]
<1>1. n \in Nat /\ DOMAIN p = 1 .. n /\ base \in A
  OBVIOUS
<1>2. ASSUME NEW a \in A, NEW k \in 1 .. n
      PROVE  St[<<a, k>>] = Push(IsAbs(p), a, p[k]) /\ Push(IsAbs(p), a, p[k]) \in A
  <2>1. p[k] \in S
    BY <1>1
  <2>2. Push(IsAbs(p), a, p[k]) \in A
    BY <2>1, PushStays, Zenon
  <2>3. <<a, k>> \in A \X (1 .. n) /\ <<a, k>>[1] = a /\ <<a, k>>[2] = k
    OBVIOUS
  <2>4. St[<<a, k>>] = Push(IsAbs(p), a, p[k])
    BY <2>3, Zenon
  <2> QED
    BY <2>2, <2>4
<1>3. Clean(p) = [abs |-> IsAbs(p), parts |-> F[DOMAIN p]]
  BY DEF Clean, FoldLeft, MapThenFoldSet
<1>4. PICK G \in [SUBSET (1 .. n) -> A] : IsFold(G, n, base, St)
  <2>1. \A a \in A, k \in 1 .. n : St[<<a, k>>] \in A
    BY <1>2
  <2>2. n \in Nat /\ base \in A
    BY <1>1
  <2> HIDE DEF St, A, n, base
  <2> QED
    BY <2>1, <2>2, FoldExists
<1> HIDE DEF St, base
<1>5. G = [s \in SUBSET DOMAIN p |->
             IF s = {} THEN base ELSE Push(IsAbs(p), G[s \ {Max(s)}], p[Max(s)])]
  <2>1. ASSUME NEW s \in SUBSET (1 .. n), s # {}
        PROVE  St[<<G[s \ {Max(s)}], Max(s)>>] = Push(IsAbs(p), G[s \ {Max(s)}], p[Max(s)])
    <3>1. Max(s) \in 1 .. n
      BY <1>1, <2>1, MaxFacts
    <3>2. G[s \ {Max(s)}] \in A
      BY <2>1
    <3> QED
      BY <1>2, <3>1, <3>2
  <2> QED
    BY <1>1, <1>4, <2>1 DEF IsFold
<1>6. F = [s \in SUBSET DOMAIN p |->
             IF s = {} THEN base ELSE Push(IsAbs(p), F[s \ {Max(s)}], p[Max(s)])]
  BY <1>5
<1> HIDE DEF F
<1>7. F[1 .. n] = G[1 .. n]
  <2>1. F[{}] = G[{}] /\ \A s \in SUBSET (1 .. n) :
          s # {} /\ F[s \ {Max(s)}] = G[s \ {Max(s)}] => F[s] = G[s]
    BY <1>1, <1>5, <1>6
  <2> QED
    BY <1>1, <2>1, FoldInduction
<1> DEFINE f == [k \in 0 .. n |-> G[1 .. k]]
<1>8. f \in [0 .. n -> A]
  <2>1. ASSUME NEW k \in 0 .. n PROVE G[1 .. k] \in A
    <3>1. 1 .. k \in SUBSET (1 .. n)
      BY <1>1
    <3> QED
      BY <3>1
  <2> QED
    BY <2>1
<1>9. f[0] = base
  <2>1. 1 .. 0 = {} /\ 0 \in 0 .. n
    BY <1>1
  <2>2. G[{}] = base
    BY <1>5
  <2> QED
    BY <2>1, <2>2
<1>10. ASSUME NEW k \in 0 .. n - 1 PROVE f[k + 1] = Push(IsAbs(p), f[k], p[k + 1])
  <2>1. k + 1 \in Nat \ {0} /\ k + 1 \in 0 .. n /\ k \in 0 .. n /\ k + 1 - 1 = k
    BY <1>1
  <2>2. Max(1 .. (k + 1)) = k + 1 /\ (1 .. (k + 1)) \ {Max(1 .. (k + 1))} = 1 .. k
    BY <2>1, MaxOfSegment
  <2>3. 1 .. (k + 1) \in SUBSET DOMAIN p /\ 1 .. (k + 1) # {}
    <3>1. 1 \in 1 .. (k + 1) /\ 1 .. (k + 1) \subseteq 1 .. n
      BY <1>1, <2>1
    <3> HIDE DEF n
    <3> QED
      BY <1>1, <3>1
  <2>4. G[1 .. (k + 1)] = Push(IsAbs(p), G[1 .. k], p[k + 1])
    BY <1>5, <2>2, <2>3
  <2> QED
    BY <2>1, <2>4
<1>11. f[n] = G[1 .. n]
  BY <1>1
<1>12. Clean(p) = [abs |-> IsAbs(p), parts |-> f[n]]
  BY <1>1, <1>3, <1>7, <1>11
<1>13. IsRun(f, p)
  BY <1>9, <1>10 DEF IsRun, base
<1> HIDE DEF f
<1> QED
  BY <1>8, <1>12, <1>13

-----------------------------------------------------------------------------
(* The walk, step by step: how deep it is.                                  *)

LEMMA CountStep ==
  ASSUME NEW i \in Nat, NEW j \in Nat, i <= j, NEW T
  PROVE  /\ (i + 1 .. i) \cap T = {}
         /\ Cardinality((i + 1 .. j) \cap T) \in Nat
         /\ Cardinality((i + 1 .. j + 1) \cap T)
              = Cardinality((i + 1 .. j) \cap T) + (IF j + 1 \in T THEN 1 ELSE 0)
<1> DEFINE A == (i + 1 .. j) \cap T
           B == (i + 1 .. j + 1) \cap T
<1>1. i + 1 .. i = {}
  OBVIOUS
<1>2. IsFiniteSet(A) /\ Cardinality(A) \in Nat
  <2>1. IsFiniteSet(i + 1 .. j)
    BY FS_Interval
  <2>2. IsFiniteSet(A)
    BY <2>1, FS_Intersection
  <2> QED
    BY <2>2, FS_CardinalityType
<1>3. i + 1 .. j + 1 = (i + 1 .. j) \cup {j + 1} /\ j + 1 \notin i + 1 .. j
  OBVIOUS
<1>4. CASE j + 1 \in T
  <2>1. B = A \cup {j + 1} /\ j + 1 \notin A
    BY <1>3, <1>4
  <2>2. Cardinality(A \cup {j + 1}) = Cardinality(A) + 1
    BY <1>2, <2>1, FS_AddElement
  <2> HIDE DEF A, B
  <2>3. Cardinality(B) = Cardinality(A) + 1
    BY <2>1, <2>2
  <2> QED
    BY <1>1, <1>2, <1>4, <2>3 DEF A, B
<1>5. CASE j + 1 \notin T
  <2>1. B = A
    BY <1>3, <1>5
  <2> HIDE DEF A, B
  <2>2. Cardinality(B) = Cardinality(A) + 0
    BY <1>2, <2>1
  <2> QED
    BY <1>1, <1>2, <1>5, <2>2 DEF A, B
<1> QED
  BY <1>4, <1>5

\* What a segment adds to the net number of names.
Turn(s) == IF IsName(s) THEN 1 ELSE IF s = ".." THEN 0 - 1 ELSE 0

LEMMA NetStep ==
  ASSUME NEW p, NEW i \in Nat, NEW j \in Nat, i <= j
  PROVE  Net(p, i, i) = 0 /\ Net(p, i, j) \in Int
         /\ Net(p, i, j + 1) = Net(p, i, j) + Turn(p[j + 1])
<1> DEFINE T == {n \in Nat : IsName(p[n])}
           U == {n \in Nat : p[n] = ".."}
           N(k) == Cardinality((i + 1 .. k) \cap T)
           P(k) == Cardinality((i + 1 .. k) \cap U)
<1>1. ASSUME NEW k \in Nat PROVE Net(p, i, k) = N(k) - P(k)
  <2>1. {n \in i + 1 .. k : IsName(p[n])} = (i + 1 .. k) \cap T
    OBVIOUS
  <2>2. {n \in i + 1 .. k : p[n] = ".."} = (i + 1 .. k) \cap U
    OBVIOUS
  <2> QED
    BY <2>1, <2>2 DEF Net
<1>2. /\ (i + 1 .. i) \cap T = {}
      /\ N(j) \in Nat /\ N(j + 1) = N(j) + (IF j + 1 \in T THEN 1 ELSE 0)
  <2> HIDE DEF T
  <2> QED
    BY CountStep
<1>3. /\ (i + 1 .. i) \cap U = {}
      /\ P(j) \in Nat /\ P(j + 1) = P(j) + (IF j + 1 \in U THEN 1 ELSE 0)
  <2> HIDE DEF U
  <2> QED
    BY CountStep
<1>4. j + 1 \in T <=> IsName(p[j + 1])
  OBVIOUS
<1>5. j + 1 \in U <=> p[j + 1] = ".."
  OBVIOUS
<1>6. N(i) = 0 /\ P(i) = 0
  BY <1>2, <1>3, FS_EmptySet
<1>7. Net(p, i, i) = N(i) - P(i) /\ Net(p, i, j) = N(j) - P(j)
      /\ Net(p, i, j + 1) = N(j + 1) - P(j + 1)
  BY <1>1
<1> HIDE DEF N, P, T, U
<1>8. N(j + 1) - P(j + 1) = N(j) - P(j) + Turn(p[j + 1])
  <2>0. PICK a \in Nat, b \in Nat : a = N(j) /\ b = P(j)
    BY <1>2, <1>3
  <2>1. CASE IsName(p[j + 1])
    <3>1. p[j + 1] # ".." /\ Turn(p[j + 1]) = 1
      BY <2>1 DEF Turn, IsName
    <3>2. N(j + 1) = N(j) + 1 /\ P(j + 1) = P(j) + 0
      BY <1>2, <1>3, <1>4, <1>5, <2>1, <3>1
    <3>3. a + 1 - (b + 0) = a - b + 1
      OBVIOUS
    <3> QED
      BY <2>0, <3>1, <3>2, <3>3
  <2>2. CASE p[j + 1] = ".."
    <3>1. ~IsName(p[j + 1]) /\ Turn(p[j + 1]) = 0 - 1
      BY <2>2 DEF Turn, IsName
    <3>2. N(j + 1) = N(j) + 0 /\ P(j + 1) = P(j) + 1
      BY <1>2, <1>3, <1>4, <1>5, <2>2, <3>1
    <3>3. a + 0 - (b + 1) = a - b + (0 - 1)
      OBVIOUS
    <3> QED
      BY <2>0, <3>1, <3>2, <3>3
  <2>3. CASE ~IsName(p[j + 1]) /\ p[j + 1] # ".."
    <3>1. Turn(p[j + 1]) = 0
      BY <2>3 DEF Turn
    <3>2. N(j + 1) = N(j) + 0 /\ P(j + 1) = P(j) + 0
      BY <1>2, <1>3, <1>4, <1>5, <2>3
    <3>3. a + 0 - (b + 0) = a - b + 0
      OBVIOUS
    <3> QED
      BY <2>0, <3>1, <3>2, <3>3
  <2> QED
    BY <2>1, <2>2, <2>3
<1>9. N(i) - P(i) = 0 /\ N(j) - P(j) \in Int
  BY <1>2, <1>3, <1>6
<1> QED
  BY <1>7, <1>8, <1>9

LEMMA NetFacts ==
  ASSUME NEW p, NEW n \in Nat
  PROVE  /\ Net(p, n, n) = 0
         /\ \A m \in 0 .. n : /\ Net(p, m, n) \in Int
                             /\ Net(p, m, n + 1) = Net(p, m, n) + Turn(p[n + 1])
<1>1. ASSUME NEW m \in 0 .. n
      PROVE  Net(p, m, n) \in Int /\ Net(p, m, n + 1) = Net(p, m, n) + Turn(p[n + 1])
  <2>1. m \in Nat /\ m <= n
    OBVIOUS
  <2> QED
    BY <2>1, NetStep, Zenon
<1>2. Net(p, n, n) = 0
  <2>1. n <= n
    OBVIOUS
  <2> QED
    BY <2>1, NetStep, Zenon
<1> QED
  BY <1>1, <1>2

LEMMA DepthMax ==
  ASSUME NEW p, NEW n \in Nat,
         NEW k \in 0 .. n, \A m \in 0 .. n : Net(p, m, n) <= Net(p, k, n)
  PROVE  Depth(p, n) = Net(p, k, n) /\ Depth(p, n) \in Nat
<1> DEFINE nets == {Net(p, m, n) : m \in 0 .. n}
           d == Net(p, k, n)
<1>1. \A m \in 0 .. n : Net(p, m, n) \in Int
  BY NetFacts
<1>2. d \in nets /\ \A e \in nets : e <= d
  OBVIOUS
<1>3. \A e \in nets : e \in Int
  BY <1>1
<1>4. Depth(p, n) = CHOOSE e \in nets : \A g \in nets : g <= e
  BY DEF Depth
<1>5. Net(p, n, n) = 0 /\ Net(p, n, n) \in nets
  BY NetFacts
<1> HIDE DEF nets, d
<1>6. Depth(p, n) \in nets /\ \A g \in nets : g <= Depth(p, n)
  BY <1>2, <1>4
<1>7. Depth(p, n) = d
  <2>1. Depth(p, n) <= d /\ d <= Depth(p, n) /\ d \in Int /\ Depth(p, n) \in Int
    BY <1>2, <1>3, <1>6
  <2>2. \A x, y \in Int : x <= y /\ y <= x => x = y
    OBVIOUS
  <2> QED
    BY <2>1, <2>2
<1>8. 0 <= d /\ d \in Int
  BY <1>2, <1>3, <1>5
<1>9. d \in Nat
  BY <1>8
<1> QED
  BY <1>7, <1>9 DEF d

\* Where the walk was as deep as it gets, counted from there.
Deepest(p, n, k) == \A m \in 0 .. n : Net(p, m, n) <= Net(p, k, n)

LEMMA DeepestStep ==
  ASSUME NEW p, NEW n \in Nat, NEW k \in 0 .. n, Deepest(p, n, k)
  PROVE  LET t == Net(p, k, n) + Turn(p[n + 1])
         IN  /\ 0 <= t => Deepest(p, n + 1, k) /\ Net(p, k, n + 1) = t
             /\ t < 0 => Deepest(p, n + 1, n + 1) /\ Net(p, n + 1, n + 1) = 0
<1> DEFINE u == Turn(p[n + 1])
           t == Net(p, k, n) + u
<1>1. u \in Int
  BY DEF Turn
<1>2. \A m \in 0 .. n : Net(p, m, n) \in Int /\ Net(p, m, n + 1) = Net(p, m, n) + u
  BY NetFacts
<1>3. Net(p, n + 1, n + 1) = 0
  BY NetFacts
<1>4. \A m \in 0 .. n : Net(p, m, n + 1) \in Int /\ Net(p, m, n + 1) <= Net(p, k, n + 1)
  <2> SUFFICES ASSUME NEW m \in 0 .. n
               PROVE  Net(p, m, n + 1) \in Int /\ Net(p, m, n + 1) <= Net(p, k, n + 1)
    OBVIOUS
  <2>1. PICK a \in Int, b \in Int : a = Net(p, m, n) /\ b = Net(p, k, n)
    BY <1>2
  <2>2. a <= b
    BY <2>1 DEF Deepest
  <2> HIDE DEF u
  <2>3. a + u <= b + u /\ a + u \in Int
    BY <1>1, <2>1, <2>2
  <2> QED
    BY <1>2, <2>1, <2>3
<1>5. Net(p, k, n + 1) = t
  BY <1>2
<1>6. \A m \in 0 .. n + 1 : m \in 0 .. n \/ m = n + 1
  OBVIOUS
<1>7. CASE 0 <= t
  <2>1. Net(p, n + 1, n + 1) <= Net(p, k, n + 1)
    BY <1>3, <1>5, <1>7
  <2>2. Deepest(p, n + 1, k)
    BY <1>4, <1>6, <2>1 DEF Deepest
  <2>3. t \in Int
    BY <1>1, <1>2
  <2> HIDE DEF t
  <2>4. ~(t < 0)
    BY <1>7, <2>3
  <2> QED
    BY <1>5, <2>2, <2>4 DEF t
<1>8. CASE ~(0 <= t)
  <2>1. t \in Int
    BY <1>1, <1>2
  <2> HIDE DEF t
  <2>2. t < 0
    BY <1>8, <2>1
  <2>3. \A m \in 0 .. n : Net(p, m, n + 1) <= 0
    <3> SUFFICES ASSUME NEW m \in 0 .. n PROVE Net(p, m, n + 1) <= 0
      OBVIOUS
    <3>1. PICK a \in Int : a = Net(p, m, n + 1)
      BY <1>4
    <3>2. a <= t
      BY <1>4, <1>5, <3>1
    <3> QED
      BY <2>1, <2>2, <3>1, <3>2
  <2>4. Net(p, n + 1, n + 1) <= 0
    BY <1>3
  <2>5. Deepest(p, n + 1, n + 1)
    BY <1>3, <1>6, <2>3, <2>4 DEF Deepest
  <2> QED
    BY <1>3, <1>8, <2>5 DEF t
<1> QED
  BY <1>7, <1>8

LEMMA DeepestExists ==
  ASSUME NEW p, NEW n \in Nat
  PROVE  \E k \in 0 .. n : Deepest(p, n, k)
<1> DEFINE T == {m \in Nat : ~\E k \in 0 .. m : Deepest(p, m, k)}
<1> SUFFICES ASSUME T # {} PROVE FALSE
  OBVIOUS
<1>1. PICK m \in T : \A k \in T : m <= k
  <2>1. T \in SUBSET Nat
    OBVIOUS
  <2> HIDE DEF T
  <2> QED
    BY <2>1, LeastNumber
<1>2. m # 0
  <2>1. Net(p, 0, 0) = 0 /\ 0 \in 0 .. 0 /\ \A k \in 0 .. 0 : k = 0
    BY NetFacts
  <2>2. Deepest(p, 0, 0)
    BY <2>1 DEF Deepest
  <2> QED
    BY <2>1, <2>2
<1>3. PICK l \in Nat : m = l + 1
  <2>1. m \in Nat
    OBVIOUS
  <2>2. m - 1 \in Nat /\ m = (m - 1) + 1
    BY <1>2, <2>1
  <2> QED
    BY <2>2
<1>4. PICK k \in 0 .. l : Deepest(p, l, k)
  <2>1. ~(m <= l)
    BY <1>3
  <2> QED
    BY <1>1, <2>1
<1>5. Net(p, k, l) \in Int /\ Turn(p[l + 1]) \in Int
  <2>1. Net(p, k, l) \in Int
    BY NetFacts
  <2> QED
    BY <2>1 DEF Turn
<1>6. 0 <= Net(p, k, l) + Turn(p[l + 1]) \/ Net(p, k, l) + Turn(p[l + 1]) < 0
  BY <1>5
<1>7. Deepest(p, l + 1, k) \/ Deepest(p, l + 1, l + 1)
  BY <1>4, <1>6, DeepestStep
<1>8. k \in 0 .. l + 1 /\ l + 1 \in 0 .. l + 1
  OBVIOUS
<1> QED
  BY <1>3, <1>7, <1>8

\* A name goes down by one; ".." goes up by one, at the top it does nothing.
LEMMA DepthStep ==
  ASSUME NEW p, NEW n \in Nat
  PROVE  /\ Depth(p, 0) = 0 /\ Depth(p, n) \in Nat /\ Depth(p, n + 1) \in Nat
         /\ IsName(p[n + 1]) => Depth(p, n + 1) = Depth(p, n) + 1
         /\ p[n + 1] = ".." /\ Depth(p, n) # 0 => Depth(p, n + 1) = Depth(p, n) - 1
         /\ p[n + 1] = ".." /\ Depth(p, n) = 0 => Depth(p, n + 1) = 0
         /\ p[n + 1] \in {"", "."} => Depth(p, n + 1) = Depth(p, n)
<1>1. PICK k \in 0 .. n : Deepest(p, n, k)
  BY DeepestExists
<1>2. PICK d \in Nat : d = Depth(p, n) /\ d = Net(p, k, n)
  BY <1>1, DepthMax DEF Deepest
<1>3. Depth(p, 0) = 0
  <2>1. Net(p, 0, 0) = 0 /\ 0 \in 0 .. 0 /\ \A m \in 0 .. 0 : m = 0
    BY NetFacts
  <2>2. \A m \in 0 .. 0 : Net(p, m, 0) <= Net(p, 0, 0)
    BY <2>1
  <2>3. Depth(p, 0) = Net(p, 0, 0)
    BY <2>1, <2>2, DepthMax
  <2> QED
    BY <2>1, <2>3
<1>4. PICK t \in Int : t = Turn(p[n + 1])
  BY DEF Turn
<1>5. Depth(p, n + 1) \in Nat /\ Depth(p, n + 1) = IF 0 <= d + t THEN d + t ELSE 0
  <2>1. k \in 0 .. n + 1 /\ n + 1 \in 0 .. n + 1 /\ n + 1 \in Nat /\ d + t \in Int
    OBVIOUS
  <2>2. CASE 0 <= d + t
    <3>1. Deepest(p, n + 1, k) /\ Net(p, k, n + 1) = d + t
      BY <1>1, <1>2, <1>4, <2>2, DeepestStep
    <3>2. Depth(p, n + 1) = Net(p, k, n + 1) /\ Depth(p, n + 1) \in Nat
      BY <2>1, <3>1, DepthMax DEF Deepest
    <3> QED
      BY <2>2, <3>1, <3>2
  <2>3. CASE ~(0 <= d + t)
    <3>1. d + t < 0
      BY <2>1, <2>3
    <3>2. Deepest(p, n + 1, n + 1) /\ Net(p, n + 1, n + 1) = 0
      BY <1>1, <1>2, <1>4, <3>1, DeepestStep
    <3>3. Depth(p, n + 1) = Net(p, n + 1, n + 1) /\ Depth(p, n + 1) \in Nat
      BY <2>1, <3>2, DepthMax DEF Deepest
    <3> QED
      BY <2>3, <3>2, <3>3
  <2> QED
    BY <2>2, <2>3
<1>6. IsName(p[n + 1]) => t = 1
  BY <1>4 DEF Turn
<1>7. p[n + 1] = ".." => t = 0 - 1
  BY <1>4 DEF Turn, IsName
<1>8. p[n + 1] \in {"", "."} => t = 0
  BY <1>4 DEF Turn, IsName
<1>9. /\ t = 1 => (IF 0 <= d + t THEN d + t ELSE 0) = d + 1
      /\ t = 0 - 1 /\ d # 0 => (IF 0 <= d + t THEN d + t ELSE 0) = d - 1
      /\ t = 0 - 1 /\ d = 0 => (IF 0 <= d + t THEN d + t ELSE 0) = 0
      /\ t = 0 => (IF 0 <= d + t THEN d + t ELSE 0) = d
  OBVIOUS
<1> QED
  BY <1>2, <1>3, <1>5, <1>6, <1>7, <1>8, <1>9

-----------------------------------------------------------------------------
(* The loop keeps the way down from the top to where the walk is: its i-th   *)
(* name is the one that led to depth i last.                                *)

LeadsTo(p, k, i, n) ==
  /\ n \in 1 .. k /\ IsName(p[n]) /\ Depth(p, n) = i
  /\ \A m \in n .. k : Depth(p, m) >= i

Mirrors(p, k, acc) ==
  /\ Len(acc) = Depth(p, k)
  /\ \A i \in 1 .. Depth(p, k) : \E n \in 1 .. k : LeadsTo(p, k, i, n) /\ acc[i] = p[n]

\* After k segments the walk is at the top and goes on upwards.
Exit(p, k) == p[k + 1] = ".." /\ Depth(p, k) = 0

LEMMA LeadsOn ==
  ASSUME NEW p, NEW k \in Nat, NEW i \in Nat, NEW n \in 1 .. k,
         LeadsTo(p, k, i, n), i <= Depth(p, k + 1)
  PROVE  n \in 1 .. k + 1 /\ LeadsTo(p, k + 1, i, n)
<1>1. n \in 1 .. k + 1
  OBVIOUS
<1>2. ASSUME NEW m \in n .. k + 1 PROVE Depth(p, m) >= i
  <2>1. m \in n .. k \/ m = k + 1
    OBVIOUS
  <2>2. CASE m \in n .. k
    BY <2>2 DEF LeadsTo
  <2>3. CASE m = k + 1
    <3>1. Depth(p, k + 1) \in Nat
      BY DepthStep
    <3> QED
      BY <2>3, <3>1
  <2> QED
    BY <2>1, <2>2, <2>3
<1> QED
  BY <1>1, <1>2 DEF LeadsTo

LEMMA MirrorsStep ==
  ASSUME NEW S, NEW p \in Seq(S), NEW k \in 0 .. Len(p) - 1, NEW acc \in Seq(S),
         Mirrors(p, k, acc), IsAbs(p) \/ ~Exit(p, k)
  PROVE  Mirrors(p, k + 1, Push(IsAbs(p), acc, p[k + 1]))
<1>1. k \in Nat /\ k + 1 \in 1 .. Len(p) /\ p[k + 1] \in S
  <2>1. Len(p) \in Nat
    OBVIOUS
  <2>2. k \in Nat /\ k + 1 \in 1 .. Len(p)
    BY <2>1
  <2> QED
    BY <2>2, ElementOfSeq
<1>2. PICK d \in Nat : d = Depth(p, k)
  BY <1>1, DepthStep
<1>3. PICK s \in S : s = p[k + 1]
  BY <1>1
<1>4. Len(acc) = d /\ (acc = << >> <=> d = 0)
  <2>1. Len(acc) = d
    BY <1>2 DEF Mirrors
  <2> QED
    BY <2>1, EmptySeq
<1>5. ASSUME NEW i \in 1 .. d, i <= Depth(p, k + 1)
      PROVE  \E n \in 1 .. k + 1 : LeadsTo(p, k + 1, i, n) /\ acc[i] = p[n]
  <2>1. PICK n \in 1 .. k : LeadsTo(p, k, i, n) /\ acc[i] = p[n]
    BY <1>2 DEF Mirrors
  <2>2. n \in 1 .. k + 1 /\ LeadsTo(p, k + 1, i, n)
    BY <1>1, <1>5, <2>1, LeadsOn
  <2> QED
    BY <2>1, <2>2
<1>6. CASE s \in {"", "."}
  <2>1. Depth(p, k + 1) = d
    BY <1>1, <1>2, <1>3, <1>6, DepthStep
  <2>2. Push(IsAbs(p), acc, s) = acc
    BY <1>6 DEF Push
  <2>3. \A i \in 1 .. d : i <= d
    OBVIOUS
  <2>4. Mirrors(p, k + 1, acc)
    BY <1>4, <1>5, <2>1, <2>3 DEF Mirrors
  <2> QED
    BY <1>3, <2>2, <2>4
<1>7. CASE s = ".." /\ d # 0
  <2>0. d \in 1 .. d
    BY <1>7
  <2>1. Depth(p, k + 1) = d - 1 /\ d \in 1 .. d
    BY <1>1, <1>2, <1>3, <1>7, <2>0, DepthStep
  <2>2. acc # << >> /\ Last(acc) = acc[d]
    BY <1>4, <1>7, LastOf
  <2>3. PICK n \in 1 .. k : LeadsTo(p, k, d, n) /\ acc[d] = p[n]
    BY <1>2, <2>1 DEF Mirrors
  <2>4. Last(acc) # ".."
    BY <2>2, <2>3 DEF LeadsTo, IsName
  <2>5. Push(IsAbs(p), acc, s) = Front(acc)
    BY <1>7, <2>2, <2>4 DEF Push
  <2>6. Len(Front(acc)) = d - 1 /\ \A i \in 1 .. d - 1 : Front(acc)[i] = acc[i]
    BY <1>4, <2>2, LastOf
  <2>7. \A i \in 1 .. d - 1 : i \in 1 .. d /\ i <= d - 1
    OBVIOUS
  <2>8. ASSUME NEW i \in 1 .. d - 1
        PROVE  \E n1 \in 1 .. k + 1 : LeadsTo(p, k + 1, i, n1) /\ Front(acc)[i] = p[n1]
    BY <1>5, <2>1, <2>6, <2>7
  <2>9. Mirrors(p, k + 1, Front(acc))
    BY <2>1, <2>6, <2>8 DEF Mirrors
  <2> QED
    BY <1>3, <2>5, <2>9
<1>8. CASE s = ".." /\ d = 0
  <2>1. Depth(p, k + 1) = 0
    BY <1>1, <1>2, <1>3, <1>8, DepthStep
  <2>2. IsAbs(p)
    <3>1. Exit(p, k)
      BY <1>2, <1>3, <1>8 DEF Exit
    <3> QED
      BY <3>1, Zenon
  <2>3. acc = << >> /\ Push(IsAbs(p), acc, s) = acc
    BY <1>4, <1>8, <2>2 DEF Push
  <2>4. 1 .. 0 = {}
    OBVIOUS
  <2>5. Mirrors(p, k + 1, acc)
    BY <1>4, <1>8, <2>1, <2>4 DEF Mirrors
  <2> QED
    BY <1>3, <2>3, <2>5
<1>9. CASE IsName(s)
  <2>1. Depth(p, k + 1) = d + 1
    BY <1>1, <1>2, <1>3, <1>9, DepthStep
  <2>2. Push(IsAbs(p), acc, s) = Append(acc, s)
    BY <1>9 DEF Push, IsName
  <2>3. /\ Len(Append(acc, s)) = d + 1 /\ Append(acc, s)[d + 1] = s
        /\ \A i \in 1 .. d : Append(acc, s)[i] = acc[i]
    BY <1>4, AppendProperties
  <2>4. LeadsTo(p, k + 1, d + 1, k + 1) /\ k + 1 \in 1 .. k + 1
    <3>1. k + 1 \in 1 .. k + 1 /\ \A m \in k + 1 .. k + 1 : m = k + 1
      BY <1>1
    <3>2. d + 1 >= d + 1
      OBVIOUS
    <3> QED
      BY <1>3, <1>9, <2>1, <3>1, <3>2 DEF LeadsTo
  <2>5. ASSUME NEW i \in 1 .. d + 1
        PROVE  \E n \in 1 .. k + 1 : LeadsTo(p, k + 1, i, n) /\ Append(acc, s)[i] = p[n]
    <3>1. i = d + 1 \/ (i \in 1 .. d /\ i <= d + 1)
      OBVIOUS
    <3>2. CASE i = d + 1
      BY <1>3, <2>3, <2>4, <3>2
    <3>3. CASE i \in 1 .. d /\ i <= d + 1
      BY <1>5, <2>1, <2>3, <3>3
    <3> QED
      BY <3>1, <3>2, <3>3
  <2>6. Mirrors(p, k + 1, Append(acc, s))
    BY <2>1, <2>3, <2>5 DEF Mirrors
  <2> QED
    BY <1>3, <2>2, <2>6
<1> QED
  BY <1>6, <1>7, <1>8, <1>9 DEF IsName

LEMMA MirrorsRun ==
  ASSUME NEW S, NEW p \in Seq(S), NEW f \in [0 .. Len(p) -> Seq(S)], IsRun(f, p),
         NEW k \in 0 .. Len(p), IsAbs(p) \/ \A j \in 0 .. k - 1 : ~Exit(p, j)
  PROVE  Mirrors(p, k, f[k])
<1> DEFINE T == {m \in 0 .. k : ~Mirrors(p, m, f[m])}
<1> SUFFICES ASSUME T # {} PROVE FALSE
  <2>1. k \in 0 .. k
    OBVIOUS
  <2> QED
    BY <2>1
<1>0. Len(p) \in Nat
  OBVIOUS
<1>1. PICK m \in T : \A l \in T : m <= l
  <2>1. T \in SUBSET Nat
    OBVIOUS
  <2> HIDE DEF T
  <2> QED
    BY <2>1, LeastNumber
<1>2. m # 0
  <2>0. Depth(p, 0) = 0
    BY DepthStep, 0 \in Nat
  <2>1. Depth(p, 0) = 0 /\ 1 .. 0 = {}
    BY <2>0
  <2>2. f[0] = << >> /\ Len(<< >>) = 0
    BY DEF IsRun
  <2>3. Mirrors(p, 0, f[0])
    BY <2>1, <2>2 DEF Mirrors
  <2> QED
    BY <1>1, <2>3
<1>3. PICK l \in 0 .. Len(p) - 1 : m = l + 1 /\ l \in 0 .. k
  <2>1. m \in 0 .. k
    OBVIOUS
  <2>2. m - 1 \in 0 .. Len(p) - 1 /\ m = (m - 1) + 1 /\ m - 1 \in 0 .. k
    BY <1>0, <1>2, <2>1
  <2> QED
    BY <2>2
<1>4. Mirrors(p, l, f[l])
  <2>1. ~(m <= l)
    BY <1>3
  <2> QED
    BY <1>1, <1>3, <2>1
<1>5. f[l] \in Seq(S) /\ f[l + 1] = Push(IsAbs(p), f[l], p[l + 1])
  <2>1. l \in 0 .. Len(p)
    BY <1>0
  <2> QED
    BY <2>1 DEF IsRun
<1>6. IsAbs(p) \/ ~Exit(p, l)
  <2>1. l \in 0 .. k - 1
    <3>1. m \in 0 .. k /\ m \in Nat
      OBVIOUS
    <3> QED
      BY <1>3, <3>1
  <2> QED
    BY <2>1
<1>7. Mirrors(p, l + 1, f[l + 1])
  BY <1>4, <1>5, <1>6, MirrorsStep
<1> QED
  BY <1>1, <1>3, <1>7

\* Only one of the names that lead to a depth is kept, so the way down is where
\* the walk is.
LEMMA MirrorsLocation ==
  ASSUME NEW S, NEW p \in Seq(S), NEW acc \in Seq(S), Mirrors(p, Len(p), acc)
  PROVE  Location(p) = acc /\ acc \in Seq({s \in S : IsName(s)})
<1> DEFINE L == Len(p)
<1>1. L \in Nat /\ DOMAIN p = 1 .. L
  OBVIOUS
<1>2. Len(acc) = Depth(p, L) /\ DOMAIN acc = 1 .. Len(acc)
  BY DEF Mirrors
<1>3. ASSUME NEW i \in 1 .. Depth(p, L)
      PROVE  /\ p[CHOOSE n \in Kept(p) : Depth(p, n) = i] = acc[i]
             /\ acc[i] \in {s \in S : IsName(s)}
  <2>1. PICK n \in 1 .. L : LeadsTo(p, L, i, n) /\ acc[i] = p[n]
    BY DEF Mirrors
  <2>2. n \in Kept(p) /\ Depth(p, n) = i
    BY <1>1, <2>1 DEF LeadsTo, Kept
  <2>3. ASSUME NEW a \in Kept(p), NEW b \in Kept(p), Depth(p, a) = i, Depth(p, b) = i
        PROVE  ~(a < b)
    <3> SUFFICES ASSUME a < b PROVE FALSE
      OBVIOUS
    <3>1. a \in 1 .. L /\ b \in 1 .. L /\ IsName(p[b])
          /\ \A m \in a .. L : Depth(p, m) >= Depth(p, a)
      BY <1>1 DEF Kept
    <3>2. PICK c \in Nat : b = c + 1 /\ c \in a .. L
      <4>1. b - 1 \in Nat /\ b = (b - 1) + 1 /\ b - 1 \in a .. L
        BY <1>1, <3>1
      <4> QED
        BY <4>1
    <3>3. Depth(p, c) \in Nat /\ Depth(p, c + 1) = Depth(p, c) + 1
      BY <3>1, <3>2, DepthStep
    <3>4. Depth(p, c) >= i /\ Depth(p, c) + 1 = i
      BY <2>3, <3>1, <3>2, <3>3
    <3> QED
      BY <3>3, <3>4
  <2>4. \A a, b \in Kept(p) : a \in Nat /\ b \in Nat
    BY <1>1 DEF Kept
  <2>5. ASSUME NEW a \in Kept(p), Depth(p, a) = i PROVE a = n
    <3>1. ~(a < n) /\ ~(n < a)
      BY <2>2, <2>3, <2>5
    <3> QED
      BY <2>2, <2>4, <3>1
  <2>6. (CHOOSE m \in Kept(p) : Depth(p, m) = i) = n
    BY <2>2, <2>5
  <2>7. p[n] \in S /\ IsName(p[n])
    BY <2>1, ElementOfSeq DEF LeadsTo
  <2> QED
    BY <2>1, <2>6, <2>7
<1>4. Location(p) = [d \in 1 .. Depth(p, L) |-> acc[d]]
  BY <1>3 DEF Location
<1>5. acc = [d \in 1 .. Len(acc) |-> acc[d]]
  BY <1>2, LenProperties
<1>6. acc \in Seq({s \in S : IsName(s)})
  <2> DEFINE N == {s \in S : IsName(s)}
  <2>1. \A i \in 1 .. Len(acc) : acc[i] \in N
    BY <1>2, <1>3
  <2>2. Len(acc) \in Nat
    OBVIOUS
  <2> HIDE DEF N
  <2>3. acc \in [1 .. Len(acc) -> N]
    BY <1>5, <2>1
  <2> QED
    BY <2>2, <2>3, SeqDef DEF N
<1> QED
  BY <1>2, <1>4, <1>5, <1>6

LEMMA NetIsDepth ==
  ASSUME NEW p, NEW n \in Nat, \A j \in 0 .. n - 1 : ~Exit(p, j)
  PROVE  Net(p, 0, n) = Depth(p, n)
<1> DEFINE T == {m \in 0 .. n : Net(p, 0, m) # Depth(p, m)}
<1> SUFFICES ASSUME T # {} PROVE FALSE
  <2>1. n \in 0 .. n
    OBVIOUS
  <2> QED
    BY <2>1
<1>1. PICK m \in T : \A l \in T : m <= l
  <2>1. T \in SUBSET Nat
    OBVIOUS
  <2> HIDE DEF T
  <2> QED
    BY <2>1, LeastNumber
<1>2. m # 0
  <2>1. Depth(p, 0) = 0 /\ Net(p, 0, 0) = 0
    BY DepthStep, NetFacts, 0 \in Nat
  <2> QED
    BY <2>1
<1>3. PICK l \in 0 .. n - 1 : m = l + 1
  <2>1. m \in 0 .. n
    OBVIOUS
  <2>2. m - 1 \in 0 .. n - 1 /\ m = (m - 1) + 1
    BY <1>2, <2>1
  <2> QED
    BY <2>2
<1>4. l \in Nat /\ 0 \in 0 .. l /\ l \in 0 .. n
  OBVIOUS
<1>5. Net(p, 0, l) = Depth(p, l)
  <2>1. ~(m <= l)
    BY <1>3, <1>4
  <2> QED
    BY <1>1, <1>4, <2>1
<1>6. PICK d \in Nat : d = Depth(p, l)
  BY <1>4, DepthStep
<1>7. Net(p, 0, l + 1) = d + Turn(p[l + 1])
  BY <1>4, <1>5, <1>6, NetFacts
<1>8. CASE IsName(p[l + 1])
  <2>1. Depth(p, l + 1) = d + 1 /\ Turn(p[l + 1]) = 1
    BY <1>4, <1>6, <1>8, DepthStep DEF Turn
  <2> QED
    BY <1>1, <1>3, <1>7, <2>1
<1>9. CASE p[l + 1] = ".."
  <2>1. d # 0
    BY <1>6, <1>9 DEF Exit
  <2>2. Turn(p[l + 1]) = 0 - 1
    BY <1>9 DEF Turn, IsName
  <2>3. Depth(p, l + 1) = d - 1
    BY <1>4, <1>6, <1>9, <2>1, DepthStep
  <2>4. d + (0 - 1) = d - 1
    OBVIOUS
  <2> QED
    BY <1>1, <1>3, <1>7, <2>2, <2>3, <2>4
<1>10. CASE p[l + 1] \in {"", "."}
  <2>1. Turn(p[l + 1]) = 0
    BY <1>10 DEF Turn, IsName
  <2>2. Depth(p, l + 1) = d
    BY <1>4, <1>6, <1>10, DepthStep
  <2>3. d + 0 = d
    OBVIOUS
  <2> QED
    BY <1>1, <1>3, <1>7, <2>1, <2>2, <2>3
<1> QED
  BY <1>8, <1>9, <1>10 DEF IsName

\* A path leaves the tree if its walk goes up from the top.
LEMMA LeavesAtExit ==
  ASSUME NEW S, NEW p \in Seq(S)
  PROVE  Leaves(p) <=> \E j \in 0 .. Len(p) - 1 : Exit(p, j)
<1>1. Len(p) \in Nat /\ DOMAIN p = 1 .. Len(p)
  OBVIOUS
<1>2. ASSUME \A j \in 0 .. Len(p) - 1 : ~Exit(p, j) PROVE ~Leaves(p)
  <2> SUFFICES ASSUME NEW n \in DOMAIN p, Net(p, 0, n) < 0 PROVE FALSE
    BY DEF Leaves
  <2>1. n \in Nat /\ \A j \in 0 .. n - 1 : j \in 0 .. Len(p) - 1
    BY <1>1
  <2>2. Net(p, 0, n) = Depth(p, n)
    BY <1>2, <2>1, NetIsDepth
  <2>3. PICK d \in Nat : d = Depth(p, n)
    BY <2>1, DepthStep
  <2> QED
    BY <2>2, <2>3
<1>3. ASSUME NEW j \in 0 .. Len(p) - 1, Exit(p, j) PROVE Leaves(p)
  <2> DEFINE T == {m \in 0 .. Len(p) - 1 : Exit(p, m)}
  <2>1. PICK m \in T : \A l \in T : m <= l
    <3>1. T \in SUBSET Nat /\ T # {}
      BY <1>3
    <3> HIDE DEF T
    <3> QED
      BY <3>1, LeastNumber
  <2>2. m \in 0 .. Len(p) - 1 /\ m \in Nat /\ Exit(p, m) /\ m + 1 \in 1 .. Len(p)
    BY <1>1, <2>1
  <2>3. \A l \in 0 .. m - 1 : ~Exit(p, l)
    <3> SUFFICES ASSUME NEW l \in 0 .. m - 1, Exit(p, l) PROVE FALSE
      OBVIOUS
    <3>1. l \in 0 .. Len(p) - 1 /\ ~(m <= l)
      BY <1>1, <2>2
    <3> QED
      BY <2>1, <3>1
  <2>4. Net(p, 0, m) = Depth(p, m)
    BY <2>2, <2>3, NetIsDepth
  <2>5. Net(p, 0, m) = 0 /\ p[m + 1] = ".."
    BY <2>2, <2>4 DEF Exit
  <2>6. Net(p, 0, m + 1) = Net(p, 0, m) + Turn(p[m + 1])
    <3>1. 0 \in 0 .. m
      BY <2>2
    <3> QED
      BY <2>2, <3>1, NetFacts
  <2>7. Turn(p[m + 1]) = 0 - 1
    BY <2>5 DEF Turn, IsName
  <2>8. Net(p, 0, m + 1) < 0
    <3>1. 0 + (0 - 1) < 0
      OBVIOUS
    <3> QED
      BY <2>5, <2>6, <2>7, <3>1
  <2> QED
    BY <1>1, <2>2, <2>8 DEF Leaves
<1> QED
  BY <1>2, <1>3

\* Once outside, a relative path stays outside: its first ".." is never taken away.
LEMMA PushOutside ==
  ASSUME NEW S, NEW acc \in Seq(S), NEW s \in S, NEW abs, ~abs,
         acc # << >>, acc[1] = ".."
  PROVE  Push(abs, acc, s) # << >> /\ Push(abs, acc, s)[1] = ".."
<1>1. PICK n \in Nat \ {0} : n = Len(acc)
  BY LastOf
<1>2. CASE s \in {"", "."}
  BY <1>2 DEF Push
<1>3. CASE s = ".." /\ Last(acc) # ".."
  <2>1. n # 1
    BY <1>1, <1>3 DEF Last
  <2>2. 1 \in 1 .. n - 1 /\ n - 1 # 0
    BY <2>1
  <2>3. Len(Front(acc)) = n - 1 /\ Front(acc)[1] = acc[1]
    BY <1>1, <2>2, LastOf
  <2>4. Front(acc) # << >>
    BY <2>2, <2>3
  <2>5. Push(abs, acc, s) = Front(acc)
    BY <1>3 DEF Push
  <2> QED
    BY <2>3, <2>4, <2>5
<1>4. CASE s \notin {"", "."} /\ (s # ".." \/ Last(acc) = "..")
  <2>1. Push(abs, acc, s) = Append(acc, s)
    BY <1>4, Zenon DEF Push
  <2>2. 1 \in 1 .. Len(acc)
    BY <1>1
  <2>3. Append(acc, s) # << >> /\ Append(acc, s)[1] = acc[1]
    BY <2>2, AppendProperties
  <2> QED
    BY <2>1, <2>3
<1> QED
  BY <1>2, <1>3, <1>4

LEMMA OutsideRun ==
  ASSUME NEW S, NEW p \in Seq(S), NEW f \in [0 .. Len(p) -> Seq(S)], IsRun(f, p),
         ~IsAbs(p), Leaves(p)
  PROVE  f[Len(p)] # << >> /\ f[Len(p)][1] = ".."
<1> DEFINE Out(k) == f[k] # << >> /\ f[k][1] = ".."
<1>1. Len(p) \in Nat
  OBVIOUS
<1>2. PICK m \in 0 .. Len(p) - 1 : Exit(p, m) /\ \A j \in 0 .. m - 1 : ~Exit(p, j)
  <2> DEFINE T == {m \in 0 .. Len(p) - 1 : Exit(p, m)}
  <2>1. T \in SUBSET Nat
    BY <1>1
  <2>2. T # {}
    BY LeavesAtExit
  <2>3. PICK m \in T : \A l \in T : m <= l
    <3> HIDE DEF T
    <3> QED
      BY <2>1, <2>2, LeastNumber
  <2>4. m \in 0 .. Len(p) - 1 /\ Exit(p, m)
    OBVIOUS
  <2>5. \A j \in 0 .. m - 1 : ~Exit(p, j)
    <3> SUFFICES ASSUME NEW j \in 0 .. m - 1, Exit(p, j) PROVE FALSE
      OBVIOUS
    <3>1. j \in 0 .. Len(p) - 1 /\ ~(m <= j)
      BY <1>1, <2>4
    <3> QED
      BY <2>3, <3>1
  <2> QED
    BY <2>4, <2>5
<1>3. \A k \in 0 .. Len(p) - 1 :
        k \in 0 .. Len(p) /\ k + 1 \in 0 .. Len(p) /\ k + 1 \in 1 .. Len(p)
  BY <1>1
<1>4. \A k \in 0 .. Len(p) - 1 : /\ f[k] \in Seq(S) /\ p[k + 1] \in S
                                 /\ f[k + 1] = Push(IsAbs(p), f[k], p[k + 1])
  BY <1>3, ElementOfSeq DEF IsRun
<1>5. Out(m + 1)
  <2>1. Mirrors(p, m, f[m])
    <3>1. m \in 0 .. Len(p)
      BY <1>3
    <3> QED
      BY <1>2, <3>1, MirrorsRun
  <2>2. f[m] = << >>
    <3>1. Len(f[m]) = 0
      BY <1>2, <2>1 DEF Mirrors, Exit
    <3> QED
      BY <1>4, <3>1, EmptySeq
  <2>3. p[m + 1] = ".." /\ p[m + 1] \in S
    BY <1>2, <1>4 DEF Exit
  <2>4. f[m + 1] = Append(<< >>, p[m + 1])
    BY <1>4, <2>2, <2>3 DEF Push
  <2>5. Append(<< >>, p[m + 1]) # << >> /\ Append(<< >>, p[m + 1])[0 + 1] = p[m + 1]
    BY <2>3, AppendProperties, EmptySeq
  <2>6. 0 + 1 = 1
    OBVIOUS
  <2> QED
    BY <2>3, <2>4, <2>5, <2>6
<1>6. ASSUME NEW k \in 0 .. Len(p) - 1, Out(k) PROVE Out(k + 1)
  <2>1. f[k] \in Seq(S) /\ p[k + 1] \in S /\ f[k + 1] = Push(IsAbs(p), f[k], p[k + 1])
    BY <1>4
  <2>2. /\ Push(IsAbs(p), f[k], p[k + 1]) # << >>
        /\ Push(IsAbs(p), f[k], p[k + 1])[1] = ".."
    BY <1>6, <2>1, PushOutside, Zenon
  <2> QED
    BY <2>1, <2>2
<1>7. Out(Len(p))
  <2> DEFINE T == {k \in m + 1 .. Len(p) : ~Out(k)}
  <2> SUFFICES ASSUME T # {} PROVE FALSE
    <3>1. Len(p) \in m + 1 .. Len(p)
      BY <1>1
    <3> QED
      BY <3>1
  <2>1. PICK k \in T : \A l \in T : k <= l
    <3>1. T \in SUBSET Nat
      BY <1>1
    <3> HIDE DEF T
    <3> QED
      BY <3>1, LeastNumber
  <2>2. k \in m + 1 .. Len(p) /\ ~Out(k)
    BY <2>1
  <2>3. k # m + 1
    BY <1>5, <2>2
  <2>4. PICK l \in 0 .. Len(p) - 1 : k = l + 1 /\ l \in m + 1 .. Len(p)
    <3>1. k - 1 \in 0 .. Len(p) - 1 /\ k = (k - 1) + 1 /\ k - 1 \in m + 1 .. Len(p)
      BY <1>1, <2>2, <2>3
    <3> QED
      BY <3>1
  <2>5. Out(l)
    <3>1. ~(k <= l)
      BY <2>4
    <3> QED
      BY <2>1, <2>4, <3>1
  <2> QED
    BY <1>6, <2>2, <2>4, <2>5
<1> QED
  BY <1>7

\* filepath.Clean, by the walk.
LEMMA CleanIs ==
  ASSUME NEW S, NEW p \in Seq(S)
  PROVE  /\ Clean(p).abs = IsAbs(p) /\ Clean(p).parts \in Seq(S)
         /\ Clean(p) = [abs |-> IsAbs(p), parts |-> Clean(p).parts]
         /\ IsAbs(p) \/ ~Leaves(p) => /\ Clean(p).parts = Location(p)
                                      /\ Location(p) \in Seq({s \in S : IsName(s)})
         /\ ~IsAbs(p) /\ Leaves(p) => /\ Clean(p).parts # << >>
                                      /\ Head(Clean(p).parts) = ".."
<1>1. PICK f \in [0 .. Len(p) -> Seq(S)] :
        IsRun(f, p) /\ Clean(p) = [abs |-> IsAbs(p), parts |-> f[Len(p)]]
  BY CleanRun
<1>2. Len(p) \in Nat /\ Len(p) \in 0 .. Len(p)
  OBVIOUS
<1>3. Clean(p).abs = IsAbs(p) /\ Clean(p).parts = f[Len(p)] /\ f[Len(p)] \in Seq(S)
  BY <1>1, <1>2
<1>4. ASSUME IsAbs(p) \/ ~Leaves(p)
      PROVE  Clean(p).parts = Location(p) /\ Location(p) \in Seq({s \in S : IsName(s)})
  <2>1. IsAbs(p) \/ \A j \in 0 .. Len(p) - 1 : ~Exit(p, j)
    BY <1>4, LeavesAtExit
  <2>2. Mirrors(p, Len(p), f[Len(p)])
    BY <1>1, <1>2, <2>1, MirrorsRun
  <2>3. Location(p) = f[Len(p)] /\ f[Len(p)] \in Seq({s \in S : IsName(s)})
    BY <1>3, <2>2, MirrorsLocation, Zenon
  <2> QED
    BY <1>3, <2>3, Zenon
<1>5. ASSUME ~IsAbs(p), Leaves(p)
      PROVE  Clean(p).parts # << >> /\ Head(Clean(p).parts) = ".."
  <2>1. f[Len(p)] # << >> /\ f[Len(p)][1] = ".."
    BY <1>1, <1>5, OutsideRun
  <2>2. Head(f[Len(p)]) = f[Len(p)][1]
    BY <1>3, <2>1
  <2> QED
    BY <1>3, <2>1, <2>2
<1> QED
  BY <1>1, <1>3, <1>4, <1>5

-----------------------------------------------------------------------------
(* A clean path is its own cleaning.                                        *)

\* A segment filepath.Clean takes out.
IsSkip(s) == s \in {"", "."}

LEMMA CleanOfNames ==
  ASSUME NEW S, NEW p \in Seq(S), NEW d \in 0 .. Len(p),
         \A k \in 1 .. d : IsSkip(p[k]),
         \A k \in d + 1 .. Len(p) : IsName(p[k])
  PROVE  Clean(p) = [abs |-> IsAbs(p), parts |-> SubSeq(p, d + 1, Len(p))]
<1>1. PICK f \in [0 .. Len(p) -> Seq(S)] :
        IsRun(f, p) /\ Clean(p) = [abs |-> IsAbs(p), parts |-> f[Len(p)]]
  BY CleanRun
<1>2. Len(p) \in Nat /\ Len(p) \in 0 .. Len(p) /\ d \in Nat
  OBVIOUS
<1>3. \A k \in 0 .. d : SubSeq(p, d + 1, k) = << >>
  <2> SUFFICES ASSUME NEW k \in 0 .. d PROVE SubSeq(p, d + 1, k) = << >>
    OBVIOUS
  <2>1. k \in Int /\ d + 1 \in Int /\ k < d + 1
    BY <1>2
  <2> QED
    BY <2>1, SubSeqEmpty
<1>4. ASSUME NEW k \in 0 .. Len(p) - 1, f[k] = SubSeq(p, d + 1, k)
      PROVE  f[k + 1] = SubSeq(p, d + 1, k + 1)
  <2>0. k \in 0 .. Len(p)
    BY <1>2
  <2>1. f[k + 1] = Push(IsAbs(p), f[k], p[k + 1]) /\ f[k] \in Seq(S)
    BY <1>1, <2>0 DEF IsRun
  <2>2. CASE k + 1 \in 1 .. d
    <3>1. k \in 0 .. d /\ k + 1 \in 0 .. d
      BY <1>2, <2>2
    <3>2. f[k] = << >> /\ SubSeq(p, d + 1, k + 1) = << >>
      BY <1>3, <1>4, <3>1
    <3>3. IsSkip(p[k + 1])
      BY <2>2
    <3> QED
      BY <2>1, <3>2, <3>3 DEF Push, IsSkip
  <2>3. CASE k + 1 \in d + 1 .. Len(p)
    <3>1. d + 1 \in 1 .. Len(p) /\ k + 1 - 1 = k /\ k + 1 \in 1 .. Len(p)
      BY <1>2, <2>3
    <3>2. SubSeq(p, d + 1, k + 1) = SubSeq(p, d + 1, k + 1 - 1) \o <<p[k + 1]>>
      BY <2>3, <3>1, SubSeqRecursiveSecond
    <3>3. p[k + 1] \in S /\ IsName(p[k + 1])
      BY <2>3, <3>1, ElementOfSeq
    <3>4. Push(IsAbs(p), f[k], p[k + 1]) = Append(f[k], p[k + 1])
      BY <3>3 DEF Push, IsName
    <3>5. Append(f[k], p[k + 1]) = f[k] \o <<p[k + 1]>>
      BY <2>1, <3>3, AppendIsConcat
    <3> QED
      BY <1>4, <2>1, <3>1, <3>2, <3>4, <3>5
  <2>4. k + 1 \in 1 .. d \/ k + 1 \in d + 1 .. Len(p)
    BY <1>2
  <2> QED
    BY <2>2, <2>3, <2>4
<1>5. f[0] = SubSeq(p, d + 1, 0)
  <2>1. 0 \in 0 .. d
    BY <1>2
  <2>2. f[0] = << >>
    BY <1>1 DEF IsRun
  <2> QED
    BY <1>3, <2>1, <2>2
<1>6. f[Len(p)] = SubSeq(p, d + 1, Len(p))
  <2> DEFINE T == {k \in 0 .. Len(p) : f[k] # SubSeq(p, d + 1, k)}
  <2> SUFFICES ASSUME T # {} PROVE FALSE
    BY <1>2
  <2>1. PICK k \in T : \A l \in T : k <= l
    <3>1. T \in SUBSET Nat
      OBVIOUS
    <3> HIDE DEF T
    <3> QED
      BY <3>1, LeastNumber
  <2>2. k \in 0 .. Len(p) /\ f[k] # SubSeq(p, d + 1, k)
    BY <2>1
  <2>3. k # 0
    BY <1>5, <2>2
  <2>4. PICK l \in 0 .. Len(p) - 1 : k = l + 1 /\ l \in 0 .. Len(p)
    <3>1. k - 1 \in 0 .. Len(p) - 1 /\ k = (k - 1) + 1 /\ k - 1 \in 0 .. Len(p)
      BY <1>2, <2>2, <2>3
    <3> QED
      BY <3>1
  <2>5. f[l] = SubSeq(p, d + 1, l)
    <3>1. ~(k <= l)
      BY <2>4
    <3> QED
      BY <2>1, <2>4, <3>1
  <2> QED
    BY <1>4, <2>2, <2>4, <2>5
<1> QED
  BY <1>1, <1>6

Names(S) == {s \in S : IsName(s)}

HasSpecials(S) == {"", ".", ".."} \subseteq S

LEMMA ShortSeqs ==
  ASSUME NEW S, NEW s \in S
  PROVE  /\ <<s>> \in Seq(S) /\ Len(<<s>>) = 1 /\ <<s>>[1] = s /\ Head(<<s>>) = s
         /\ <<s, s>> \in Seq(S) /\ Len(<<s, s>>) = 2 /\ Len(<<s, s>>) > 1
         /\ <<s, s>>[1] = s /\ <<s, s>>[2] = s /\ Head(<<s, s>>) = s
OBVIOUS

\* Text of what is clean and absolute, or relative and below.
LEMMA TextAbs ==
  ASSUME NEW S, NEW q \in Seq(Names(S)), HasSpecials(S)
  PROVE  LET c == [abs |-> TRUE, parts |-> q]
         IN  Text(c) \in Seq(S) /\ IsAbs(Text(c)) /\ Clean(Text(c)) = c
<1> DEFINE c == [abs |-> TRUE, parts |-> q]
<1>1. q \in Seq(S) /\ Len(q) \in Nat /\ \A i \in 1 .. Len(q) : IsName(q[i])
  <2>1. \A i \in 1 .. Len(q) : q[i] \in Names(S)
    BY ElementOfSeq
  <2>2. Names(S) \subseteq S
    BY DEF Names
  <2> QED
    BY <2>1, <2>2, SeqMonotonic DEF Names
<1>2. c.abs /\ c.parts = q
  OBVIOUS
<1>3. CASE q = << >>
  <2> DEFINE p == <<"", "">>
  <2>1. Text(c) = p
    BY <1>2, <1>3 DEF Text
  <2>2. /\ p \in Seq(S) /\ Len(p) = 2
        /\ IsSkip(p[1]) /\ IsSkip(p[2]) /\ IsAbs(p)
    <3>1. "" \in S /\ IsSkip("")
      BY Zenon DEF HasSpecials, IsSkip
    <3>2. /\ p \in Seq(S) /\ Len(p) = 2 /\ Len(p) > 1
          /\ Head(p) = "" /\ p[1] = "" /\ p[2] = ""
      BY <3>1, ShortSeqs, Zenon
    <3> HIDE DEF p
    <3>4. IsAbs(p)
      BY <3>2, Zenon DEF IsAbs
    <3>5. IsSkip(p[1]) /\ IsSkip(p[2])
      BY <3>1, <3>2, Zenon
    <3> QED
      BY <3>2, <3>4, <3>5
  <2> HIDE DEF p
  <2>4. 2 \in 0 .. Len(p) /\ (\A k \in 1 .. 2 : IsSkip(p[k]))
        /\ (\A k \in 2 + 1 .. Len(p) : IsName(p[k]))
    <3>1. \A k \in 1 .. 2 : k = 1 \/ k = 2
      OBVIOUS
    <3>2. 2 \in 0 .. 2 /\ 2 + 1 .. 2 = {}
      OBVIOUS
    <3>3. 2 \in 0 .. Len(p) /\ 2 + 1 .. Len(p) = {}
      BY <2>2, <3>2
    <3> QED
      BY <2>2, <3>1, <3>3
  <2>5. Clean(p) = [abs |-> IsAbs(p), parts |-> SubSeq(p, 2 + 1, Len(p))]
    BY <2>2, <2>4, CleanOfNames
  <2>6. SubSeq(p, 2 + 1, 2) = << >>
    BY SubSeqEmpty
  <2>7. [abs |-> IsAbs(p), parts |-> SubSeq(p, 2 + 1, Len(p))] = c
    BY <1>3, <2>2, <2>6
  <2> QED
    BY <2>1, <2>2, <2>5, <2>7
<1>4. CASE q # << >>
  <2> DEFINE e == <<"">>
             p == e \o q
  <2>1. Text(c) = p
    BY <1>2, <1>4 DEF Text
  <2>20. "" \in S /\ IsSkip("")
    BY Zenon DEF HasSpecials, IsSkip
  <2>21. e \in Seq(S) /\ Len(e) = 1 /\ e[1] = ""
    BY <2>20, ShortSeqs, Zenon
  <2> HIDE DEF e
  <2>2. e \in Seq(S) /\ Len(e) = 1 /\ IsSkip(e[1])
    BY <2>20, <2>21
  <2>3. /\ p \in Seq(S) /\ Len(p) = 1 + Len(q)
        /\ \A i \in 1 .. 1 + Len(q) : p[i] = IF i <= 1 THEN e[i] ELSE q[i - 1]
    <3>1. /\ p \in Seq(S) /\ Len(p) = Len(e) + Len(q)
          /\ \A i \in 1 .. Len(e) + Len(q) :
                p[i] = IF i <= Len(e) THEN e[i] ELSE q[i - Len(e)]
      BY <1>1, <2>2, ConcatProperties, Zenon
    <3> HIDE DEF p
    <3> QED
      BY <2>2, <3>1
  <2>4. PICK n \in Nat \ {0} : n = Len(q)
    BY <1>1, <1>4, EmptySeq
  <2>5. p[1] = e[1]
    <3>1. 1 \in 1 .. 1 + Len(q) /\ 1 <= 1
      BY <2>4
    <3> QED
      BY <2>2, <2>3, <3>1
  <2>6. \A i \in 2 .. 1 + Len(q) : IsName(p[i])
    <3> SUFFICES ASSUME NEW i \in 2 .. 1 + Len(q) PROVE IsName(p[i])
      OBVIOUS
    <3>1. i \in 1 .. 1 + Len(q) /\ ~(i <= 1) /\ i - 1 \in 1 .. Len(q)
      BY <2>4
    <3> QED
      BY <1>1, <2>3, <3>1
  <2>7. Head(p) = p[1] /\ Len(p) > 1
    <3>1. 1 + n > 1
      OBVIOUS
    <3> HIDE DEF p
    <3>2. Len(p) > 1 /\ p # << >>
      BY <2>3, <2>4, <3>1
    <3> QED
      BY <2>3, <3>2
  <2> HIDE DEF p
  <2>8. IsAbs(p)
    BY <2>21, <2>5, <2>7, Zenon DEF IsAbs
  <2>9. 1 \in 0 .. Len(p) /\ (\A k \in 1 .. 1 : IsSkip(p[k]))
        /\ (\A k \in 1 + 1 .. Len(p) : IsName(p[k]))
    <3>1. \A k \in 1 .. 1 : k = 1
      OBVIOUS
    <3>2. 1 \in 0 .. 1 + n /\ 1 + 1 = 2
      OBVIOUS
    <3> QED
      BY <2>2, <2>3, <2>4, <2>5, <2>6, <3>1, <3>2
  <2>10. Clean(p) = [abs |-> IsAbs(p), parts |-> SubSeq(p, 1 + 1, Len(p))]
    BY <2>3, <2>9, CleanOfNames
  <2>11. SubSeq(p, 1 + 1, Len(p)) = q
    <3> DEFINE t == SubSeq(p, 2, Len(p))
    <3>1. \A i \in 2 .. Len(p) : p[i] \in S
      <4>1. \A i \in 2 .. Len(p) : i \in 1 .. Len(p)
        OBVIOUS
      <4> QED
        BY <2>3, <4>1, ElementOfSeq
    <3>2. /\ t \in Seq(S) /\ Len(t) = IF 2 <= Len(p) THEN Len(p) - 2 + 1 ELSE 0
          /\ \A i \in 1 .. Len(p) - 2 + 1 : t[i] = p[2 + i - 1]
      <4>1. 2 \in Int /\ Len(p) \in Int
        BY <2>3, <2>4
      <4> QED
        BY <3>1, <4>1, SubSeqProperties
    <3>3. (IF 2 <= 1 + n THEN 1 + n - 2 + 1 ELSE 0) = n
      OBVIOUS
    <3>4. Len(t) = n
      BY <2>3, <2>4, <3>2, <3>3
    <3>5. ASSUME NEW i \in 1 .. n PROVE t[i] = q[i]
      <4>1. i \in 1 .. 1 + n - 2 + 1 /\ 2 + i - 1 = i + 1
        OBVIOUS
      <4>2. t[i] = p[i + 1]
        BY <2>3, <2>4, <3>2, <4>1
      <4>3. i + 1 \in 1 .. 1 + n /\ ~(i + 1 <= 1) /\ i + 1 - 1 = i
        OBVIOUS
      <4>4. p[i + 1] = q[i]
        BY <2>3, <2>4, <4>3
      <4> QED
        BY <4>2, <4>4
    <3> HIDE DEF t
    <3>6. t = q
      BY <1>1, <2>4, <3>2, <3>4, <3>5, SeqEqual
    <3> QED
      BY <3>6 DEF t
  <2> QED
    BY <1>2, <2>1, <2>3, <2>8, <2>10, <2>11
<1> QED
  BY <1>3, <1>4

LEMMA TextRel ==
  ASSUME NEW S, NEW q \in Seq(Names(S)), HasSpecials(S)
  PROVE  /\ RelText(q) \in Seq(S) /\ ~IsAbs(RelText(q)) /\ RelText(q) # EmptyPath
         /\ Clean(RelText(q)) = [abs |-> FALSE, parts |-> q]
<1> DEFINE c == [abs |-> FALSE, parts |-> q]
<1>1. q \in Seq(S) /\ Len(q) \in Nat /\ \A i \in 1 .. Len(q) : IsName(q[i])
  <2>1. \A i \in 1 .. Len(q) : q[i] \in Names(S)
    BY ElementOfSeq
  <2>2. Names(S) \subseteq S
    BY DEF Names
  <2> QED
    BY <2>1, <2>2, SeqMonotonic DEF Names
<1>2. ~c.abs /\ c.parts = q /\ RelText(q) = Text(c)
  BY DEF RelText
<1>3. "" \in S /\ "." \in S /\ IsSkip(".") /\ "" # "."
  BY Zenon DEF HasSpecials, IsSkip
<1>4. CASE q = << >>
  <2> DEFINE p == <<".">>
             e == <<"">>
  <2>1. RelText(q) = p
    BY <1>2, <1>4 DEF Text
  <2>2. p \in Seq(S) /\ Len(p) = 1 /\ p[1] = "." /\ Head(p) = "."
    BY <1>3, ShortSeqs, Zenon
  <2>3. e[1] = "" /\ EmptyPath = e
    BY <1>3, ShortSeqs, Zenon DEF EmptyPath
  <2> HIDE DEF p, e
  <2>4. p # EmptyPath
    BY <1>3, <2>2, <2>3, Zenon
  <2>5. ~IsAbs(p)
    BY <1>3, <2>2, Zenon DEF IsAbs
  <2>6. 1 \in 0 .. Len(p) /\ (\A k \in 1 .. 1 : IsSkip(p[k]))
        /\ (\A k \in 1 + 1 .. Len(p) : IsName(p[k]))
    <3>1. IsSkip(p[1]) /\ Len(p) = 1
      BY <1>3, <2>2, Zenon
    <3>2. (\A k \in 1 .. 1 : k = 1) /\ 1 + 1 .. 1 = {} /\ 1 \in 0 .. 1
      OBVIOUS
    <3> QED
      BY <3>1, <3>2
  <2>7. Clean(p) = [abs |-> IsAbs(p), parts |-> SubSeq(p, 1 + 1, Len(p))]
    BY <2>2, <2>6, CleanOfNames
  <2>8. SubSeq(p, 1 + 1, 1) = << >>
    BY SubSeqEmpty
  <2>9. [abs |-> IsAbs(p), parts |-> SubSeq(p, 1 + 1, Len(p))] = c
    <3>1. SubSeq(p, 1 + 1, Len(p)) = q
      BY <1>4, <2>2, <2>8
    <3>2. IsAbs(p) = FALSE
      BY <2>5 DEF IsAbs
    <3> QED
      BY <3>1, <3>2
  <2> QED
    BY <2>1, <2>2, <2>4, <2>5, <2>7, <2>9
<1>5. CASE q # << >>
  <2>1. RelText(q) = q
    BY <1>2, <1>5 DEF Text
  <2>2. Head(q) = q[1] /\ 1 \in 1 .. Len(q)
    BY <1>1, <1>5, EmptySeq
  <2>3. q[1] # ""
    BY <1>1, <2>2 DEF IsName
  <2>4. ~IsAbs(q)
    BY <2>2, <2>3, Zenon DEF IsAbs
  <2>5. q # EmptyPath
    <3>1. EmptyPath[1] = ""
      BY <1>3, ShortSeqs, Zenon DEF EmptyPath
    <3> QED
      BY <2>3, <3>1, Zenon
  <2>6. 0 \in 0 .. Len(q) /\ (\A k \in 1 .. 0 : IsSkip(q[k]))
        /\ (\A k \in 0 + 1 .. Len(q) : IsName(q[k]))
    <3>1. 1 .. 0 = {} /\ 0 + 1 = 1
      OBVIOUS
    <3> QED
      BY <1>1, <3>1
  <2>7. Clean(q) = [abs |-> IsAbs(q), parts |-> SubSeq(q, 0 + 1, Len(q))]
    BY <1>1, <2>6, CleanOfNames
  <2>8. SubSeq(q, 0 + 1, Len(q)) = q
    <3>1. SubSeq(q, 1, Len(q)) = q
      BY SubSeqFull
    <3>2. 0 + 1 = 1
      OBVIOUS
    <3> QED
      BY <3>1, <3>2
  <2>9. [abs |-> IsAbs(q), parts |-> SubSeq(q, 0 + 1, Len(q))] = c
    <3>1. IsAbs(q) = FALSE
      BY <2>4 DEF IsAbs
    <3> QED
      BY <2>8, <3>1
  <2> QED
    BY <1>1, <2>1, <2>4, <2>5, <2>7, <2>9
<1> QED
  BY <1>4, <1>5

-----------------------------------------------------------------------------
(* NormalizeRelative.                                                       *)

LEMMA Refused ==
  ASSUME NEW code, NEW msg
  PROVE  Refuse(code, msg).err # nil /\ Refuse(code, msg).err = NewError(code, msg)
BY DEF Refuse, NewError, nil

LEMMA Accepted ==
  ASSUME NEW rel
  PROVE  Accept(rel).err = nil /\ Accept(rel).rel = rel
BY DEF Accept

LEMMA NormalizeIs ==
  ASSUME NEW S, NEW p \in Seq(S)
  PROVE  /\ p # EmptyPath /\ ~IsAbs(p) /\ ~Leaves(p) =>
              NormalizeRelative(p) = Accept(Location(p))
         /\ ~(p # EmptyPath /\ ~IsAbs(p) /\ ~Leaves(p)) =>
              NormalizeRelative(p).err # nil
<1> DEFINE c == Clean(p)
           outside == p # EmptyPath /\ ~c.abs /\ c.parts # << >> /\ Head(c.parts) = ".."
<1>1. c.abs = IsAbs(p)
  BY CleanIs
<1>2. IsAbs(p) \in BOOLEAN /\ Leaves(p) \in BOOLEAN
  BY DEF IsAbs, Leaves
<1>3. ASSUME p # EmptyPath, ~IsAbs(p), ~Leaves(p)
      PROVE  NormalizeRelative(p) = Accept(Location(p))
  <2>1. c.parts = Location(p) /\ Location(p) \in Seq({s \in S : IsName(s)})
    BY <1>3, CleanIs
  <2>2. ~outside
    <3> SUFFICES ASSUME c.parts # << >>, Head(c.parts) = ".." PROVE FALSE
      OBVIOUS
    <3>1. Head(c.parts) \in {s \in S : IsName(s)}
      BY <2>1, HeadTailProperties
    <3>2. IsName("..")
      BY <3>1
    <3> QED
      BY <3>2 DEF IsName
  <2> HIDE DEF c
  <2> QED
    BY <1>1, <1>3, <2>1, <2>2 DEF NormalizeRelative, c
<1>4. ASSUME p = EmptyPath \/ IsAbs(p) \/ Leaves(p) PROVE NormalizeRelative(p).err # nil
  <2>1. CASE p = EmptyPath
    <3>1. NormalizeRelative(p) = Refuse("EINVAL", "path is required")
      BY <2>1 DEF NormalizeRelative
    <3> QED
      BY <3>1, Refused, Zenon
  <2>2. CASE p # EmptyPath /\ IsAbs(p)
    <3>1. NormalizeRelative(p) = Refuse("EPERM", "absolute paths are not allowed")
      BY <1>1, <2>2 DEF NormalizeRelative
    <3> QED
      BY <3>1, Refused, Zenon
  <2>3. CASE p # EmptyPath /\ ~IsAbs(p)
    <3>1. c.parts # << >> /\ Head(c.parts) = ".."
      BY <1>4, <2>3, CleanIs
    <3>2. NormalizeRelative(p) = Refuse("EPERM", "path must stay within the shared root")
      BY <1>1, <2>3, <3>1 DEF NormalizeRelative
    <3> QED
      BY <3>2, Refused, Zenon
  <2> QED
    BY <2>1, <2>2, <2>3
<1> QED
  BY <1>2, <1>3, <1>4

LEMMA NormalizeText ==
  ASSUME NEW S, NEW q \in Seq(Names(S)), HasSpecials(S)
  PROVE  NormalizeRelative(RelText(q)) = Accept(q)
<1> DEFINE t == RelText(q)
           c == [abs |-> FALSE, parts |-> q]
<1>1. t # EmptyPath /\ Clean(t) = c
  BY TextRel
<1>2. ~c.abs /\ c.parts = q
  OBVIOUS
<1>3. q # << >> => Head(q) # ".."
  <2>1. q # << >> => Head(q) \in Names(S)
    BY HeadTailProperties
  <2> QED
    BY <2>1 DEF Names, IsName
<1> HIDE DEF c, t
<1>4. NormalizeRelative(t) = Accept(Clean(t).parts)
  BY <1>1, <1>2, <1>3 DEF NormalizeRelative
<1> QED
  BY <1>1, <1>2, <1>4 DEF t

LEMMA NormalizeUp ==
  ASSUME NEW S, NEW p \in Seq(S), p # << >>, Head(p) = ".."
  PROVE  NormalizeRelative(p).err # nil
<1>1. Len(p) \in Nat \ {0} /\ Head(p) = p[1]
  BY EmptySeq
<1>2. Depth(p, 0) = 0
  BY DepthStep, 0 \in Nat
<1>3. Exit(p, 0)
  <2>1. p[0 + 1] = p[1]
    OBVIOUS
  <2> QED
    BY <1>1, <1>2, <2>1 DEF Exit
<1>4. 0 \in 0 .. Len(p) - 1
  BY <1>1
<1>5. Leaves(p)
  BY <1>3, <1>4, LeavesAtExit
<1> QED
  BY <1>5, NormalizeIs

-----------------------------------------------------------------------------
(* ResolveGuestArgument.                                                    *)

LEMMA AbsConcat ==
  ASSUME NEW S, NEW a \in Seq(S), NEW b \in Seq(S), IsAbs(a)
  PROVE  a \o b \in Seq(S) /\ IsAbs(a \o b)
<1>1. Len(a) > 1
  BY Zenon DEF IsAbs
<1>2. Head(a) = ""
  BY Zenon DEF IsAbs
<1>3. a \o b \in Seq(S) /\ Len(a \o b) > 1 /\ Head(a \o b) = Head(a)
  <2>1. Len(a) \in Nat /\ Len(b) \in Nat /\ Head(a) = a[1]
    OBVIOUS
  <2>2. a \o b \in Seq(S) /\ Len(a \o b) = Len(a) + Len(b)
    BY ConcatProperties
  <2>3. (a \o b)[1] = a[1]
    BY <1>1, <2>1, ConcatProperties
  <2>4. Len(a \o b) > 1
    BY <1>1, <2>1, <2>2
  <2>5. Head(a \o b) = (a \o b)[1]
    BY <2>2, <2>4
  <2> QED
    BY <2>1, <2>2, <2>3, <2>4, <2>5
<1> QED
  BY <1>2, <1>3, Zenon DEF IsAbs

\* Where an argument points, typed in the directory wd.
Place(wd, x) == Location(IF IsAbs(x) THEN x ELSE wd \o x)

LEMMA PlaceIs ==
  ASSUME NEW S, HasSpecials(S), NEW wd \in Seq(S), IsAbs(wd), NEW x \in Seq(S)
  PROVE  /\ Place(wd, x) \in Seq(Names(S))
         /\ IsAbs(x) => Clean(x) = [abs |-> TRUE, parts |-> Place(wd, x)]
         /\ ~IsAbs(x) => Clean(Join(wd, x)) = [abs |-> TRUE, parts |-> Place(wd, x)]
<1>1. ASSUME NEW full \in Seq(S), IsAbs(full)
      PROVE  /\ Location(full) \in Seq(Names(S))
             /\ Clean(full) = [abs |-> TRUE, parts |-> Location(full)]
             /\ Clean(Text(Clean(full))) = Clean(full)
  <2>1. IsAbs(full) = TRUE
    BY <1>1 DEF IsAbs
  <2>2. Location(full) \in Seq(Names(S)) /\ Clean(full).parts = Location(full)
    BY <1>1, CleanIs DEF Names
  <2>3. Clean(full) = [abs |-> IsAbs(full), parts |-> Clean(full).parts]
    BY CleanIs
  <2>4. Clean(full) = [abs |-> TRUE, parts |-> Location(full)]
    BY <2>1, <2>2, <2>3
  <2>5. Clean(Text(Clean(full))) = Clean(full)
    BY <2>2, <2>4, TextAbs
  <2> QED
    BY <2>2, <2>4, <2>5
<1>2. CASE IsAbs(x)
  BY <1>1, <1>2 DEF Place
<1>3. CASE ~IsAbs(x)
  <2>1. wd \o x \in Seq(S) /\ IsAbs(wd \o x)
    BY AbsConcat
  <2>2. Place(wd, x) = Location(wd \o x)
    BY <1>3 DEF Place
  <2>3. Clean(Join(wd, x)) = Clean(wd \o x)
    BY <1>1, <2>1 DEF Join
  <2> QED
    BY <1>1, <1>3, <2>1, <2>2, <2>3
<1> QED
  BY <1>2, <1>3

LEMMA ConstantSeq ==
  ASSUME NEW S, NEW s \in S, NEW k \in Nat \ {0}
  PROVE  LET c == [n \in 1 .. k |-> s]
         IN  c \in Seq(S) /\ c # << >> /\ Len(c) = k /\ c[1] = s
<1> DEFINE c == [n \in 1 .. k |-> s]
<1>1. c \in Seq(S) /\ Len(c) = k
  OBVIOUS
<1>2. 1 \in 1 .. k
  OBVIOUS
<1>3. c[1] = s
  BY <1>2
<1> HIDE DEF c
<1>4. c # << >>
  BY <1>1, EmptySeq
<1> QED
  BY <1>1, <1>3, <1>4 DEF c

\* A path below the base is reached by names alone, any other by going up first.
LEMMA RelOf ==
  ASSUME NEW S, HasSpecials(S), NEW b \in Seq(Names(S)), NEW t \in Seq(Names(S))
  PROVE  LET rel == FilepathRel([abs |-> TRUE, parts |-> b], [abs |-> TRUE, parts |-> t])
         IN  /\ IsPrefix(b, t) => \E rest \in Seq(Names(S)) : rel = RelText(rest) /\ b \o rest = t
             /\ ~IsPrefix(b, t) => rel \in Seq(S) /\ rel # << >> /\ Head(rel) = ".."
<1> DEFINE same == {n \in 0 .. Len(b) : IsPrefix(SubSeq(b, 1, n), t)}
           common == CHOOSE n \in same : \A m \in same : m <= n
           up == [n \in 1 .. Len(b) - common |-> ".."]
           rest == SubSeq(t, common + 1, Len(t))
           rel == FilepathRel([abs |-> TRUE, parts |-> b], [abs |-> TRUE, parts |-> t])
           N == Names(S)
<1>1. rel = Text([abs |-> FALSE, parts |-> up \o rest])
  BY DEF FilepathRel
<1>2. Len(b) \in Nat /\ Len(t) \in Nat
  OBVIOUS
<1>3. 0 \in same
  <2>1. SubSeq(b, 1, 0) = << >>
    BY SubSeqEmpty
  <2>2. Len(<< >>) = 0 /\ SubSeq(<< >>, 1, 0) = << >> /\ SubSeq(t, 1, 0) = << >>
    BY SubSeqEmpty
  <2>3. IsPrefix(<< >>, t)
    BY <1>2, <2>2 DEF IsPrefix
  <2>4. 0 \in 0 .. Len(b)
    BY <1>2
  <2> QED
    BY <2>1, <2>3, <2>4
<1>4. common \in same /\ \A m \in same : m <= common
  <2> DEFINE T == {Len(b) - n : n \in same}
  <2>1. \A n \in same : n \in 0 .. Len(b) /\ n \in Int /\ Len(b) - n \in Nat
    BY <1>2
  <2>2. T \in SUBSET Nat /\ T # {}
    BY <1>3, <2>1
  <2>3. PICK k \in T : \A m \in T : k <= m
    <3> HIDE DEF T
    <3> QED
      BY <2>2, LeastNumber
  <2>4. PICK n \in same : k = Len(b) - n
    OBVIOUS
  <2>5. \A m \in same : m <= n
    <3> SUFFICES ASSUME NEW m \in same PROVE m <= n
      OBVIOUS
    <3>1. Len(b) - n <= Len(b) - m
      BY <2>3, <2>4
    <3>2. m \in Int /\ n \in Int
      BY <2>1
    <3> HIDE DEF same
    <3> QED
      BY <1>2, <3>1, <3>2
  <2> HIDE DEF same
  <2> QED
    BY <2>5
<1>5. common \in 0 .. Len(b) /\ common \in Nat /\ IsPrefix(SubSeq(b, 1, common), t)
  <2>1. \A n \in same : n \in 0 .. Len(b) /\ n \in Nat /\ IsPrefix(SubSeq(b, 1, n), t)
    OBVIOUS
  <2> HIDE DEF same, common
  <2> QED
    BY <1>4, <2>1
<1>6. N \subseteq S /\ rest \in Seq(N)
  <2>1. ASSUME NEW c \in Nat PROVE SubSeq(t, c + 1, Len(t)) \in Seq(N)
    <3>1. \A i \in c + 1 .. Len(t) : t[i] \in N
      <4>1. \A i \in c + 1 .. Len(t) : i \in 1 .. Len(t)
        BY <1>2
      <4> QED
        BY <4>1, ElementOfSeq
    <3>2. c + 1 \in Int /\ Len(t) \in Int
      BY <1>2
    <3> HIDE DEF N
    <3> QED
      BY <3>1, <3>2, SubSeqProperties
  <2>2. N \subseteq S
    BY DEF Names
  <2> HIDE DEF same, common
  <2> QED
    BY <1>5, <2>1, <2>2
<1>7. ASSUME IsPrefix(b, t) PROVE rel = RelText(rest) /\ b \o rest = t
  <2>1. Len(b) \in same
    <3>1. SubSeq(b, 1, Len(b)) = b /\ Len(b) \in 0 .. Len(b)
      BY <1>2, SubSeqFull
    <3> QED
      BY <1>7, <3>1
  <2> HIDE DEF same, common
  <2>2. common = Len(b)
    <3>1. Len(b) <= common /\ common <= Len(b)
      BY <1>4, <1>5, <2>1
    <3> QED
      BY <1>2, <1>5, <3>1
  <2>3. up = << >>
    <3>1. 1 .. Len(b) - common = {}
      BY <1>2, <2>2
    <3>2. up = [n \in {} |-> ".."]
      BY <3>1
    <3>3. << >> = [n \in {} |-> ".."]
      OBVIOUS
    <3> QED
      BY <3>2, <3>3
  <2>4. rel = RelText(rest)
    <3>1. << >> \o rest = rest
      BY <1>6, ConcatEmptySeq
    <3> HIDE DEF up, rest, rel
    <3> QED
      BY <1>1, <2>3, <3>1 DEF RelText
  <2>5. b \o rest = t
    <3>1. Len(b) <= Len(t) /\ SubSeq(b, 1, Len(b)) = SubSeq(t, 1, Len(b))
      BY <1>7 DEF IsPrefix
    <3>2. SubSeq(b, 1, Len(b)) = b /\ SubSeq(t, 1, Len(t)) = t
      BY SubSeqFull
    <3>3. 1 \in 1 .. Len(t) + 1 /\ Len(b) \in 1 - 1 .. Len(t) /\ Len(t) \in Len(b) .. Len(t)
      BY <1>2, <3>1
    <3>4. SubSeq(t, 1, Len(b)) \o SubSeq(t, Len(b) + 1, Len(t)) = SubSeq(t, 1, Len(t))
      BY <3>3, ConcatAdjacentSubSeq
    <3> QED
      BY <2>2, <3>1, <3>2, <3>4
  <2> QED
    BY <2>4, <2>5
<1>8. ASSUME ~IsPrefix(b, t) PROVE rel \in Seq(S) /\ rel # << >> /\ Head(rel) = ".."
  <2>1. common # Len(b)
    <3>1. SubSeq(b, 1, Len(b)) = b
      BY SubSeqFull
    <3> HIDE DEF same, common
    <3> QED
      BY <1>5, <1>8, <3>1
  <2> HIDE DEF same, common
  <2>2. PICK k \in Nat \ {0} : k = Len(b) - common
    BY <1>2, <1>5, <2>1
  <2>3. PICK s \in S : s = ".."
    BY DEF HasSpecials
  <2>4. up = [n \in 1 .. k |-> s]
    BY <2>2, <2>3
  <2>5. up \in Seq(S) /\ up # << >> /\ Len(up) = k /\ up[1] = s
    <3> HIDE DEF up
    <3> QED
      BY <2>4, ConstantSeq
  <2> HIDE DEF up
  <2>6. rest \in Seq(S)
    BY <1>6, SeqMonotonic
  <2> HIDE DEF rest
  <2>7. up \o rest \in Seq(S) /\ Len(up \o rest) = k + Len(rest) /\ Len(rest) \in Nat
    <3>1. Len(rest) \in Nat
      BY <2>6, LenProperties
    <3> QED
      BY <2>5, <2>6, <3>1, ConcatProperties, Zenon
  <2>8. (up \o rest)[1] = s
    <3>1. 1 \in 1 .. Len(up) + Len(rest) /\ 1 <= Len(up)
      BY <2>5, <2>7
    <3> QED
      BY <2>5, <2>6, <3>1, ConcatProperties
  <2>9. up \o rest # << >>
    BY <2>7
  <2>10. rel = up \o rest
    <3> DEFINE c == [abs |-> FALSE, parts |-> up \o rest]
    <3>1. ~c.abs /\ c.parts = up \o rest
      OBVIOUS
    <3> HIDE DEF c, rel
    <3>2. Text(c) = up \o rest
      BY <2>9, <3>1 DEF Text
    <3> QED
      BY <1>1, <3>2 DEF c
  <2>11. Head(up \o rest) = (up \o rest)[1]
    BY <2>7, <2>9
  <2> QED
    BY <2>3, <2>7, <2>8, <2>9, <2>10, <2>11
<1> HIDE DEF same, common, up, rest, rel
<1> QED
  BY <1>6, <1>7, <1>8 DEF rel

LEMMA ResolveIs ==
  ASSUME NEW S, HasSpecials(S), NEW wd \in Seq(S), IsAbs(wd),
         NEW root \in Seq(S), NEW arg \in Seq(S)
  PROVE  LET inside == /\ arg # EmptyPath /\ root # EmptyPath
                       /\ IsPrefix(Place(wd, root), Place(wd, arg))
             got == ResolveGuestArgument(wd, root, wd, arg)
         IN  /\ inside => \E rest \in Seq(Names(S)) :
                            got = Accept(rest) /\ Place(wd, root) \o rest = Place(wd, arg)
             /\ ~inside => got.err # nil
<1> DEFINE b == Place(wd, root)
           t == Place(wd, arg)
           gp == IF IsAbs(arg) THEN arg ELSE Join(wd, arg)
           clean == Clean(gp)
           base == NormalizeRoot(wd, root)
           rel == FilepathRel(base, clean)
           got == ResolveGuestArgument(wd, root, wd, arg)
<1>1. b \in Seq(Names(S)) /\ t \in Seq(Names(S))
  BY PlaceIs
<1>2. clean = [abs |-> TRUE, parts |-> t]
  BY PlaceIs
<1>3. base = [abs |-> TRUE, parts |-> b]
  BY PlaceIs DEF NormalizeRoot
<1>4. clean.abs
  BY <1>2
<1>5. /\ IsPrefix(b, t) => \E rest \in Seq(Names(S)) : rel = RelText(rest) /\ b \o rest = t
      /\ ~IsPrefix(b, t) => rel \in Seq(S) /\ rel # << >> /\ Head(rel) = ".."
  <2> DEFINE r == FilepathRel([abs |-> TRUE, parts |-> b], [abs |-> TRUE, parts |-> t])
  <2> HIDE DEF b, t, clean, base
  <2>1. rel = r
    BY <1>2, <1>3
  <2> HIDE DEF rel
  <2>2. /\ IsPrefix(b, t) => \E rest \in Seq(Names(S)) : r = RelText(rest) /\ b \o rest = t
        /\ ~IsPrefix(b, t) => r \in Seq(S) /\ r # << >> /\ Head(r) = ".."
    BY <1>1, RelOf, Zenon
  <2> HIDE DEF r
  <2> QED
    BY <2>1, <2>2
<1>6. /\ arg = EmptyPath => got = Refuse("EINVAL", "path is required")
      /\ arg # EmptyPath => got = GuestToRelative(wd, root, gp)
  BY DEF ResolveGuestArgument
<1>7. /\ root = EmptyPath =>
           GuestToRelative(wd, root, gp) = Refuse("EINVAL", "share root is required")
      /\ root # EmptyPath /\ NormalizeRelative(rel).err # nil =>
           GuestToRelative(wd, root, gp)
             = Refuse("EPERM", "path must stay within the guest mount root")
      /\ root # EmptyPath /\ NormalizeRelative(rel).err = nil =>
           GuestToRelative(wd, root, gp) = NormalizeRelative(rel)
  <2> HIDE DEF gp
  <2> QED
    BY <1>4 DEF GuestToRelative
<1> HIDE DEF b, t, gp, clean, base, rel, got
<1>8. CASE arg = EmptyPath \/ root = EmptyPath
  BY <1>6, <1>7, <1>8, Refused, Zenon DEF b, t, got
<1>9. CASE arg # EmptyPath /\ root # EmptyPath /\ IsPrefix(b, t)
  <2>1. PICK rest \in Seq(Names(S)) : rel = RelText(rest) /\ b \o rest = t
    BY <1>5, <1>9
  <2>2. NormalizeRelative(rel) = Accept(rest)
    BY <2>1, NormalizeText
  <2>3. got = Accept(rest)
    BY <1>6, <1>7, <1>9, <2>2, Accepted
  <2> QED
    BY <1>9, <2>1, <2>3 DEF b, t, got
<1>10. CASE arg # EmptyPath /\ root # EmptyPath /\ ~IsPrefix(b, t)
  <2>1. NormalizeRelative(rel).err # nil
    BY <1>5, <1>10, NormalizeUp
  <2>2. got = Refuse("EPERM", "path must stay within the guest mount root")
    BY <1>6, <1>7, <1>10, <2>1
  <2>3. got.err # nil
    BY <2>2, Refused, Zenon
  <2> QED
    BY <1>10, <2>3 DEF b, t, got
<1> QED
  BY <1>8, <1>9, <1>10

-----------------------------------------------------------------------------
(* The command line.                                                        *)

\* What is typed and where.
Typing ==
  cwd \in Cwd /\ mountRoot \in MountRoot /\ src \in Seq(Segment) /\ dst \in Seq(Segment)

\* Whatever is typed is a list of segments, in an absolute working directory.
THEOREM TypedIsAPath == Spec => []Typing
<1>1. Init => Typing
  <2> SUFFICES ASSUME Init PROVE Typing
    OBVIOUS
  <2>1. \A s \in Segment : <<s>> \in Seq(Segment)
    OBVIOUS
  <2> QED
    BY <2>1 DEF Init, Typing
<1>2. Typing /\ [Next]_vars => Typing'
  <2> SUFFICES ASSUME Typing, [Next]_vars PROVE Typing'
    OBVIOUS
  <2>1. CASE TypeSrc
    <3>1. PICK s \in Segment : src' = Append(src, s)
      BY <2>1 DEF TypeSrc
    <3>2. src' \in Seq(Segment)
      BY <3>1 DEF Typing
    <3> QED
      BY <2>1, <3>2 DEF TypeSrc, Typing
  <2>2. CASE TypeDst
    <3>1. PICK s \in Segment : dst' = Append(dst, s)
      BY <2>2 DEF TypeDst
    <3>2. dst' \in Seq(Segment)
      BY <3>1 DEF Typing
    <3> QED
      BY <2>2, <3>2 DEF TypeDst, Typing
  <2>3. CASE UNCHANGED vars
    BY <2>3 DEF vars, Typing
  <2> QED
    BY <2>1, <2>2, <2>3 DEF Next, Typed
<1> QED
  BY <1>1, <1>2, PTL DEF Spec

All == Segment \cup {"", ".", ".."}

LEMMA TypedFacts ==
  ASSUME Typing
  PROVE  /\ HasSpecials(All) /\ cwd \in Seq(All) /\ IsAbs(cwd) /\ mountRoot \in Seq(All)
         /\ src \in Seq(All) /\ dst \in Seq(All)
         /\ \A x : GuestLocation(x) = Place(cwd, x)
<1>1. Segment \subseteq All /\ HasSpecials(All)
  BY Zenon DEF All, HasSpecials
<1>2. cwd \in Seq(Segment) /\ mountRoot \in Seq(Segment)
      /\ src \in Seq(Segment) /\ dst \in Seq(Segment) /\ IsAbs(cwd)
  BY CwdAssumption, RootAssumption DEF Typing
<1>3. \A x : GuestLocation(x) = Place(cwd, x)
  BY DEF GuestLocation, Place
<1> QED
  BY <1>1, <1>2, <1>3, SeqMonotonic

\* NormalizeRelative takes exactly the relative paths whose walk never leaves the
\* share, and each for the place it leads to, however it is spelled.
THEOREM HostTakesInside == Spec => []HostAcceptsInside
<1>1. ASSUME Typing PROVE HostAcceptsInside
  <2>1. src \in Seq(All)
    BY <1>1, TypedFacts
  <2>2. CASE src # EmptyPath /\ ~IsAbs(src) /\ ~Leaves(src)
    <3>1. NormalizeRelative(src).err = nil /\ NormalizeRelative(src).rel = Location(src)
      BY <2>1, <2>2, NormalizeIs, Accepted
    <3> QED
      BY <2>2, <3>1 DEF HostAcceptsInside
  <2>3. CASE ~(src # EmptyPath /\ ~IsAbs(src) /\ ~Leaves(src))
    <3>1. NormalizeRelative(src).err # nil
      BY <2>1, <2>3, NormalizeIs
    <3> QED
      BY <2>3, <3>1 DEF HostAcceptsInside
  <2> QED
    BY <2>2, <2>3
<1>2. Typing => HostAcceptsInside
  BY <1>1
<1> QED
  BY <1>2, TypedIsAPath, PTL

\* ResolveGuestArgument takes exactly the arguments that denote something at or
\* below the mount root, and answers with the way down from the one to the other.
THEOREM GuestTakesInside == Spec => []GuestAcceptsInside
<1>1. ASSUME Typing PROVE GuestAcceptsInside
  <2> DEFINE inside == /\ src # EmptyPath /\ mountRoot # EmptyPath
                       /\ IsPrefix(GuestLocation(mountRoot), GuestLocation(src))
             got == ResolveGuestArgument(cwd, mountRoot, cwd, src)
  <2>1. /\ HasSpecials(All) /\ cwd \in Seq(All) /\ IsAbs(cwd) /\ mountRoot \in Seq(All)
        /\ src \in Seq(All)
        /\ GuestLocation(mountRoot) = Place(cwd, mountRoot)
        /\ GuestLocation(src) = Place(cwd, src)
    BY <1>1, TypedFacts
  <2>2. /\ inside => \E rest \in Seq(Names(All)) :
                       got = Accept(rest) /\ GuestLocation(mountRoot) \o rest = GuestLocation(src)
        /\ ~inside => got.err # nil
    <3> DEFINE within == /\ src # EmptyPath /\ mountRoot # EmptyPath
                         /\ IsPrefix(Place(cwd, mountRoot), Place(cwd, src))
    <3>1. /\ within => \E rest \in Seq(Names(All)) :
                         got = Accept(rest) /\ Place(cwd, mountRoot) \o rest = Place(cwd, src)
          /\ ~within => got.err # nil
      BY <2>1, ResolveIs, Zenon
    <3> HIDE DEF got
    <3> QED
      BY <2>1, <3>1
  <2>3. CASE inside
    <3>1. PICK rest : got = Accept(rest) /\ GuestLocation(mountRoot) \o rest = GuestLocation(src)
      BY <2>2, <2>3
    <3>2. got.err = nil /\ got.rel = rest
      BY <3>1, Accepted
    <3> QED
      BY <2>3, <3>1, <3>2 DEF GuestAcceptsInside
  <2>4. CASE ~inside
    <3>1. got.err # nil
      BY <2>2, <2>4
    <3> QED
      BY <2>4, <3>1 DEF GuestAcceptsInside
  <2> QED
    BY <2>3, <2>4
<1>2. Typing => GuestAcceptsInside
  BY <1>1
<1> QED
  BY <1>2, TypedIsAPath, PTL

LEMMA LastCaseOnly ==
  ASSUME NEW cases, DOMAIN cases = 1 .. 7, ~cases[1].when, ~cases[2].when, ~cases[3].when,
         ~cases[4].when, ~cases[5].when, ~cases[6].when
  PROVE  FirstError(cases) =
           IF cases[7].when THEN NewError("EINVAL", cases[7].msg) ELSE nil
<1> DEFINE bad == {i \in DOMAIN cases : cases[i].when}
<1>1. \A i \in 1 .. 7 : i = 1 \/ i = 2 \/ i = 3 \/ i = 4 \/ i = 5 \/ i = 6 \/ i = 7
  OBVIOUS
<1>2. \A i \in bad : i = 7
  BY <1>1, Zenon
<1>3. CASE cases[7].when
  <2> DEFINE first == CHOOSE i \in bad : \A j \in bad : i <= j
  <2>1. 7 \in 1 .. 7
    OBVIOUS
  <2>2. bad = {7}
    BY <1>2, <1>3, <2>1, Zenon
  <2>3. first = 7
    <3>1. \E i \in {7} : \A j \in {7} : i <= j
      OBVIOUS
    <3>2. (CHOOSE i \in {7} : \A j \in {7} : i <= j) = 7
      BY <3>1
    <3> HIDE DEF bad
    <3> QED
      BY <2>2, <3>2
  <2>4. bad # {}
    BY <2>2, Zenon
  <2>5. FirstError(cases) = NewError("EINVAL", cases[first].msg)
    BY <2>4, Zenon DEF FirstError
  <2> QED
    BY <1>3, <2>3, <2>5, Zenon
<1>4. CASE ~cases[7].when
  <2>1. bad = {}
    BY <1>2, <1>4, Zenon
  <2>2. FirstError(cases) = nil
    BY <2>1, Zenon DEF FirstError
  <2> QED
    BY <1>4, <2>2, Zenon
<1> QED
  BY <1>3, <1>4, Zenon

\* A request whose only fault can be that its two paths are one text.
Sendable(r) ==
  /\ r.version \in {1, 2} /\ r.op = "reflink"
  /\ (r.version = 1 => r.token = "") /\ (r.version = 2 => r.token # "")
  /\ r.src # EmptyPath /\ r.dst # EmptyPath

differ == NewError("EINVAL", "source and destination must differ")

LEMMA ValidateIs ==
  ASSUME NEW r, Sendable(r)
  PROVE  Validate(r) = IF r.src = r.dst THEN differ ELSE nil
<1> DEFINE cases == <<
    [when |-> r.version \notin {1, 2}, msg |-> "unsupported protocol version"],
    [when |-> r.op # "reflink", msg |-> "unsupported operation"],
    [when |-> r.version = 1 /\ r.token # "",
     msg |-> "authentication token requires protocol version 2"],
    [when |-> r.version = 2 /\ r.token = "", msg |-> "authentication token is required"],
    [when |-> r.src = <<"">>, msg |-> "source path is required"],
    [when |-> r.dst = <<"">>, msg |-> "destination path is required"],
    [when |-> r.src = r.dst, msg |-> "source and destination must differ"] >>
<1>1. Validate(r) = FirstError(cases)
  BY DEF Validate
<1>2. DOMAIN cases = 1 .. 7
  OBVIOUS
<1>3. /\ cases[1].when = (r.version \notin {1, 2}) /\ cases[2].when = (r.op # "reflink")
      /\ cases[3].when = (r.version = 1 /\ r.token # "")
      /\ cases[4].when = (r.version = 2 /\ r.token = "")
      /\ cases[5].when = (r.src = <<"">>) /\ cases[6].when = (r.dst = <<"">>)
      /\ cases[7].when = (r.src = r.dst)
  OBVIOUS
<1>4. cases[7].msg = "source and destination must differ"
  OBVIOUS
<1> HIDE DEF cases
<1>5. /\ ~cases[1].when /\ ~cases[2].when /\ ~cases[3].when /\ ~cases[4].when
      /\ ~cases[5].when /\ ~cases[6].when
  BY <1>3, Zenon DEF EmptyPath, Sendable
<1>6. FirstError(cases) = IF cases[7].when THEN NewError("EINVAL", cases[7].msg) ELSE nil
  BY <1>2, <1>5, LastCaseOnly, Zenon
<1>7. CASE r.src = r.dst
  BY <1>1, <1>3, <1>4, <1>6, <1>7, Zenon DEF differ
<1>8. CASE r.src # r.dst
  BY <1>1, <1>3, <1>6, <1>8, Zenon
<1> QED
  BY <1>7, <1>8, Zenon

\* What the command sends is accepted, or refused because both arguments are one file.
Sends(r, rs, rd, tok) ==
  r = [version |-> IF tok # "" THEN 2 ELSE 1, op |-> "reflink", recursive |-> FALSE,
       src |-> RelText(rs), dst |-> RelText(rd), token |-> tok]

LEMMA SentIsAgreed ==
  ASSUME NEW S, HasSpecials(S), NEW rs \in Seq(Names(S)), NEW rd \in Seq(Names(S)),
         NEW tok, NEW r, Sends(r, rs, rd, tok)
  PROVE  /\ ValidateRequest(r) = IF rs = rd THEN differ ELSE nil
         /\ NormalizeRelative(r.src).rel = rs /\ NormalizeRelative(r.dst).rel = rd
         /\ differ # nil
<1>1. r.src = RelText(rs) /\ r.dst = RelText(rd)
  BY DEF Sends
<1>2. r.src # EmptyPath /\ r.dst # EmptyPath
  BY <1>1, TextRel
<1>3. r.src = r.dst <=> rs = rd
  <2>1. /\ Clean(r.src) = [abs |-> FALSE, parts |-> rs]
        /\ Clean(r.dst) = [abs |-> FALSE, parts |-> rd]
    BY <1>1, TextRel
  <2>2. Clean(r.src).parts = rs /\ Clean(r.dst).parts = rd
    BY <2>1
  <2> QED
    BY <1>1, <2>2
<1>4. Sendable(r)
  <2>1. r.op = "reflink" /\ r.token = tok
    BY DEF Sends
  <2>2. r.version = IF tok # "" THEN 2 ELSE 1
    BY Zenon DEF Sends
  <2>3. CASE tok # ""
    <3>1. r.version = 2 /\ 2 # 1 /\ 2 \in {1, 2}
      <4>1. r.version = 2
        BY <2>2, <2>3, Zenon
      <4>2. 2 # 1 /\ 2 \in {1, 2}
        OBVIOUS
      <4> QED
        BY <4>1, <4>2
    <3> QED
      BY <1>2, <2>1, <2>3, <3>1, Zenon DEF Sendable
  <2>4. CASE tok = ""
    <3>1. r.version = 1 /\ 1 # 2 /\ 1 \in {1, 2}
      <4>1. r.version = 1
        BY <2>2, <2>4, Zenon
      <4>2. 1 # 2 /\ 1 \in {1, 2}
        OBVIOUS
      <4> QED
        BY <4>1, <4>2
    <3> QED
      BY <1>2, <2>1, <2>4, <3>1, Zenon DEF Sendable
  <2> QED
    BY <2>3, <2>4
<1>5. Validate(r) = IF r.src = r.dst THEN differ ELSE nil
  BY <1>4, ValidateIs, Zenon
<1>6. /\ NormalizeRelative(r.src) = Accept(rs) /\ NormalizeRelative(r.dst) = Accept(rd)
  BY <1>1, NormalizeText
<1>7. /\ NormalizeRelative(r.src).err = nil /\ NormalizeRelative(r.dst).err = nil
      /\ NormalizeRelative(r.src).rel = rs /\ NormalizeRelative(r.dst).rel = rd
  BY <1>6, Accepted
<1>8. differ # nil
  BY DEF differ, NewError, nil
<1>9. CASE rs = rd
  <2>1. Validate(r) = differ
    BY <1>3, <1>5, <1>9
  <2>2. ValidateRequest(r) = Validate(r)
    BY <1>8, <2>1, Zenon DEF ValidateRequest
  <2> QED
    BY <1>7, <1>8, <1>9, <2>1, <2>2
<1>10. CASE rs # rd
  <2>1. Validate(r) = nil
    BY <1>3, <1>5, <1>10
  <2>2. ValidateRequest(r) = nil
    BY <1>7, <2>1 DEF ValidateRequest
  <2> QED
    BY <1>7, <1>8, <1>10, <2>2
<1> QED
  BY <1>9, <1>10

\* The host refuses a request the command has built only if its two arguments are one
\* file, refuses all of those, and takes the paths of the others for the places the
\* user meant.
THEOREM BothAgree == Spec => []GuestAndHostAgree
<1>1. ASSUME Typing, BuildRequest.err = nil
      PROVE  LET r == BuildRequest.req
                 root == GuestLocation(mountRoot)
             IN  /\ ValidateRequest(r) \in
                      {nil, NewError("EINVAL", "source and destination must differ")}
                 /\ ValidateRequest(r) = nil <=> GuestLocation(src) # GuestLocation(dst)
                 /\ root \o NormalizeRelative(r.src).rel = GuestLocation(src)
                 /\ root \o NormalizeRelative(r.dst).rel = GuestLocation(dst)
  <2> DEFINE s == ResolveGuestArgument(cwd, mountRoot, cwd, src)
             d == ResolveGuestArgument(cwd, mountRoot, cwd, dst)
             version == IF token # "" THEN 2 ELSE 1
             req == NewRequest(version, RelText(s.rel), RelText(d.rel))
             b == Place(cwd, mountRoot)
  <2>1. BuildRequest = IF s.err # nil THEN s ELSE IF d.err # nil THEN d
                       ELSE [err |-> nil, req |-> req]
    BY DEF BuildRequest
  <2>2. /\ HasSpecials(All) /\ cwd \in Seq(All) /\ IsAbs(cwd) /\ mountRoot \in Seq(All)
        /\ src \in Seq(All) /\ dst \in Seq(All)
        /\ \A x : GuestLocation(x) = Place(cwd, x)
    BY <1>1, TypedFacts
  <2> HIDE DEF s, d, req
  <2>3. s.err = nil /\ d.err = nil /\ BuildRequest.req = req
    BY <1>1, <2>1
  <2>4. PICK rs \in Seq(Names(All)) : s = Accept(rs) /\ b \o rs = Place(cwd, src)
    BY <2>2, <2>3, ResolveIs, Zenon DEF s
  <2>5. PICK rd \in Seq(Names(All)) : d = Accept(rd) /\ b \o rd = Place(cwd, dst)
    BY <2>2, <2>3, ResolveIs, Zenon DEF d
  <2>6. s.rel = rs /\ d.rel = rd
    BY <2>4, <2>5, Accepted
  <2>7. Sends(req, rs, rd, token)
    BY <2>6 DEF req, NewRequest, Sends
  <2>8. /\ ValidateRequest(req) = IF rs = rd THEN differ ELSE nil
        /\ NormalizeRelative(req.src).rel = rs /\ NormalizeRelative(req.dst).rel = rd
        /\ differ # nil
    BY <2>2, <2>7, SentIsAgreed, Zenon
  <2>9. Place(cwd, src) = Place(cwd, dst) <=> rs = rd
    <3>1. b \in Seq(Names(All))
      BY <2>2, PlaceIs
    <3>2. b \o rs = b \o rd => rs = rd
      BY <3>1, ConcatSimplifications, Zenon
    <3> HIDE DEF b
    <3> QED
      BY <2>4, <2>5, <3>2
  <2> HIDE DEF b
  <2>10. /\ GuestLocation(src) = Place(cwd, src) /\ GuestLocation(dst) = Place(cwd, dst)
         /\ GuestLocation(mountRoot) = b
    BY <2>2, Zenon DEF b
  <2>11. /\ ValidateRequest(req) \in {nil, differ}
         /\ ValidateRequest(req) = nil <=> GuestLocation(src) # GuestLocation(dst)
    BY <2>8, <2>9, <2>10
  <2>12. /\ GuestLocation(mountRoot) \o NormalizeRelative(req.src).rel = GuestLocation(src)
         /\ GuestLocation(mountRoot) \o NormalizeRelative(req.dst).rel = GuestLocation(dst)
    BY <2>4, <2>5, <2>8, <2>10
  <2> QED
    BY <2>3, <2>11, <2>12, Zenon DEF differ
<1>2. Typing => GuestAndHostAgree
  BY <1>1 DEF GuestAndHostAgree
<1> QED
  BY <1>2, TypedIsAPath, PTL
=============================================================================
