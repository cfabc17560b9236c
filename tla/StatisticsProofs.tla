-------------------------- MODULE StatisticsProofs --------------------------
(***************************************************************************)
(* Proofs about analysis/statistics.py: wilson_interval inverts the score  *)
(* test, for every z, every count and every rate that is a fraction; the   *)
(* exact p-value is the two-sided tail, and McNemar's two numbers agree,   *)
(* for every number of targets.                                            *)
(***************************************************************************)
EXTENDS Statistics, Induction, TLAPS

\* The counts are counts.
Counts ==
    /\ both \in Nat
    /\ onlyA \in Nat
    /\ onlyB \in Nat
    /\ neither \in Nat

\* The comparison counts targets.
LEMMA CountsInvariance == Spec => []Counts
  <1>1. Init => Counts
    BY DEF Init, Counts
  <1>2. Counts /\ [Next]_statisticsVars => Counts'
    BY DEF Counts, Next, Agree, Disagree, statisticsVars
  <1> QED
    BY <1>1, <1>2, PTL DEF Spec

\* A positive multiple has the sign of what it is a multiple of.
LEMMA SameSign ==
    ASSUME NEW x \in Int, NEW k \in Int, k > 0
    PROVE  k * x <= 0 <=> x <= 0
  OBVIOUS

\* wilson_interval: the interval holds exactly the rates the score test does
\* not reject, for every z whose square is a fraction, as a float's is.
THEOREM WilsonInverts ==
    ASSUME NEW s \in Nat, NEW n \in Nat, NEW j \in Nat, NEW m \in Nat
    PROVE  Inside(s, n, j, m) <=> ScoreTest(s, n, j, m)
  <1> DEFINE left == n * Square(2 * j * (n * ZDen + ZNum) - m * (2 * s * ZDen + ZNum))
             right == Square(m) * ZNum * (4 * s * (n - s) * ZDen + n * ZNum)
             near == ZDen * Square(s * m - j * n)
             far == ZNum * j * (m - j) * n
             factor == 4 * (n * ZDen + ZNum)
  <1>1. /\ ZNum \in Nat /\ ZNum > 0 /\ ZDen \in Nat
        /\ factor \in Int /\ factor > 0
    BY StatisticsAssumption
  <1>2. left \in Int /\ right \in Int /\ near \in Int /\ far \in Int
    BY <1>1 DEF Square
  \* How far a rate is outside the interval, by the code's formula, is a
  \* positive multiple of how far it fails the score test.
  <1>3. left - right = factor * (near - far)
    <2> HIDE DEF left, right, near, far, factor
    <2>1. n * Square(2 * j * (n * ZDen + ZNum) - m * (2 * s * ZDen + ZNum))
              - Square(m) * ZNum * (4 * s * (n - s) * ZDen + n * ZNum)
          = 4 * (n * ZDen + ZNum)
              * (ZDen * Square(s * m - j * n) - ZNum * j * (m - j) * n)
      BY <1>1 DEF Square
    <2> QED
      BY <2>1, Zenon DEF left, right, near, far, factor
  <1>4. Inside(s, n, j, m) <=> left <= right
    BY DEF Inside
  <1>5. ScoreTest(s, n, j, m) <=> near <= far
    BY DEF ScoreTest
  <1> HIDE DEF left, right, near, far, factor
  <1>6. near - far \in Int
    BY <1>2
  <1>7. factor * (near - far) <= 0 <=> near - far <= 0
    BY <1>1, <1>6, SameSign
  <1> QED
    BY <1>2, <1>3, <1>4, <1>5, <1>7

\* However many targets are compared, the interval reported is that of the
\* score test.
THEOREM IntervalCorrect == Spec => []IntervalIsScoreTest
  <1>1. Counts => IntervalIsScoreTest
    <2>1. ASSUME Counts
          PROVE  /\ total \in Nat
                 /\ {both + onlyA, both + onlyB} \subseteq Nat
                 /\ 0..Grid \subseteq Nat /\ Grid \in Nat
      BY <2>1, StatisticsAssumption DEF Counts, total
    <2> QED
      BY <2>1, WilsonInverts DEF IntervalIsScoreTest
  <1> QED
    BY <1>1, CountsInvariance, PTL

-----------------------------------------------------------------------------
(* Binomial coefficients.                                                  *)

\* math.comb is a loop over the rounds i = 1..k.
LEMMA CombLoop ==
    ASSUME NEW n \in Nat, NEW k \in Nat
    PROVE  \E f \in [0..k -> Int] :
              /\ f[0] = 1
              /\ \A i \in 1..k : f[i] = (f[i - 1] * (n - i + 1)) \div i
              /\ Comb(n, k) = f[k]
  <1> DEFINE Loop(f) ==
               f = [i \in 0..k |->
                      IF i = 0 THEN 1 ELSE (f[i - 1] * (n - i + 1)) \div i]
             step == [i \in 1..k |-> [x \in Int |-> (x * (n - i + 1)) \div i]]
  <1>1. step \in [1..k -> [Int -> Int]]
    OBVIOUS
  <1>2. PICK f \in [0..k -> Int] :
           f[0] = 1 /\ \A i \in 1..k : f[i] = step[i][f[i - 1]]
    <2> DEFINE start == 1
    <2>1. start \in Int
      OBVIOUS
    <2> HIDE DEF step, start
    <2>2. \E f : IsLoop(f, Int, start, k, step)
      BY <1>1, <2>1, LoopExists
    <2> QED
      BY <2>2 DEF IsLoop, start
  <1>3. \A i \in 1..k : f[i] = (f[i - 1] * (n - i + 1)) \div i
    <2>1. \A i \in 1..k : f[i - 1] \in Int
      BY <1>2
    <2> QED
      BY <1>2, <2>1
  <1>4. Loop(f)
    BY <1>2, <1>3
  <1> DEFINE comb == CHOOSE g : Loop(g)
  <1>5. Loop(comb)
    <2> HIDE DEF Loop
    <2> QED
      BY <1>4
  <1>6. Comb(n, k) = comb[k]
    BY DEF Comb
  <1> HIDE DEF comb
  <1> DEFINE same == {i \in Nat : i <= k => comb[i] = f[i]}
  <1>7. \A i \in Nat : i \in same
    <2>1. 0 \in same
      BY <1>2, <1>5
    <2>2. ASSUME NEW i \in same PROVE i + 1 \in same
      <3> SUFFICES ASSUME i + 1 <= k PROVE comb[i + 1] = f[i + 1]
        OBVIOUS
      <3>1. i \in Nat /\ i + 1 \in 1..k /\ (i + 1) - 1 = i
        OBVIOUS
      <3>2. comb[i] = f[i]
        BY <3>1
      <3>3. comb[i + 1] = (comb[i] * (n - (i + 1) + 1)) \div (i + 1)
        BY <1>5, <3>1
      <3> QED
        BY <1>3, <3>1, <3>2, <3>3
    <2> HIDE DEF same
    <2> QED
      BY <2>1, <2>2, EveryNumber DEF same
  <1>8. comb[k] = f[k]
    BY <1>7
  <1> QED
    BY <1>2, <1>3, <1>6, <1>8

\* One round more gives the next coefficient.
LEMMA CombRound ==
    ASSUME NEW n \in Nat, NEW k \in Nat
    PROVE  /\ Comb(n, 0) = 1
           /\ Comb(n, k) \in Int
           /\ Comb(n, k + 1) = (Comb(n, k) * (n - k)) \div (k + 1)
  <1>1. Comb(n, 0) = 1
    <2>1. PICK f \in [0..0 -> Int] : f[0] = 1 /\ Comb(n, 0) = f[0]
      BY CombLoop, 0 \in Nat
    <2> QED
      BY <2>1
  <1>2. PICK f \in [0..k -> Int] :
           /\ f[0] = 1
           /\ \A i \in 1..k : f[i] = (f[i - 1] * (n - i + 1)) \div i
           /\ Comb(n, k) = f[k]
    BY CombLoop
  <1> DEFINE next == k + 1
  <1>3. next \in Nat
    OBVIOUS
  <1>4. PICK g \in [0..next -> Int] :
           /\ g[0] = 1
           /\ \A i \in 1..next : g[i] = (g[i - 1] * (n - i + 1)) \div i
           /\ Comb(n, next) = g[next]
    <2> HIDE DEF next
    <2> QED
      BY <1>3, CombLoop
  <1> DEFINE same == {i \in Nat : i <= k => g[i] = f[i]}
  <1>5. \A i \in Nat : i \in same
    <2>1. 0 \in same
      BY <1>2, <1>4
    <2>2. ASSUME NEW i \in same PROVE i + 1 \in same
      <3> SUFFICES ASSUME i + 1 <= k PROVE g[i + 1] = f[i + 1]
        OBVIOUS
      <3>1. i \in Nat /\ i + 1 \in 1..k /\ i + 1 \in 1..next /\ (i + 1) - 1 = i
        OBVIOUS
      <3>2. g[i] = f[i]
        BY <3>1
      <3> QED
        BY <1>2, <1>4, <3>1, <3>2
    <2> HIDE DEF same
    <2> QED
      BY <2>1, <2>2, EveryNumber DEF same
  <1>6. g[k] = f[k] /\ f[k] \in Int
    BY <1>2, <1>5
  <1>7. next \in 1..next /\ next - 1 = k /\ n - next + 1 = n - k
    OBVIOUS
  <1>8. g[next] = (g[next - 1] * (n - next + 1)) \div next
    BY <1>4, <1>7
  <1>9. Comb(n, next) = (Comb(n, k) * (n - k)) \div next
    BY <1>2, <1>4, <1>6, <1>7, <1>8
  <1> QED
    BY <1>1, <1>2, <1>6, <1>9

\* Division without a remainder.
LEMMA ExactDivision ==
    ASSUME NEW x \in Int, NEW d \in Nat, d > 0
    PROVE  (d * x) \div d = x
  OBVIOUS

\* The divisions of one row leave no remainder.
Exact(n) == \A k \in Nat : (k + 1) * Comb(n, k + 1) = Comb(n, k) * (n - k)

\* A row is the sums of neighbours in the row before.
Pascal(n) == \A k \in Nat : Comb(n + 1, k + 1) = Comb(n, k) + Comb(n, k + 1)

LEMMA PascalHolds ==
    ASSUME NEW n \in Nat, Exact(n)
    PROVE  Pascal(n)
  <1> DEFINE good == {k \in Nat : Comb(n + 1, k + 1) = Comb(n, k) + Comb(n, k + 1)}
  <1>1. 0 \in good
    <2>1. /\ Comb(n + 1, 0 + 1) = (1 * ((n + 1) - 0)) \div (0 + 1)
          /\ Comb(n, 0 + 1) = (1 * (n - 0)) \div (0 + 1)
          /\ Comb(n, 0) = 1
      <3>1. 0 \in Nat /\ n + 1 \in Nat
        OBVIOUS
      <3> QED
        BY <3>1, CombRound
    <2>2. (1 * ((n + 1) - 0)) \div (0 + 1) = n + 1 /\ (1 * (n - 0)) \div (0 + 1) = n
      OBVIOUS
    <2> QED
      BY <2>1, <2>2
  <1>2. ASSUME NEW k \in good PROVE k + 1 \in good
    <2> DEFINE a == Comb(n, k)
               b == Comb(n, k + 1)
               c == Comb(n, k + 2)
    <2>1. /\ k \in Nat /\ n + 1 \in Nat /\ k + 1 \in Nat /\ k + 2 \in Nat
          /\ (k + 1) + 1 = k + 2 /\ (n + 1) - (k + 1) = n - k /\ k + 2 > 0
      OBVIOUS
    <2>2. a \in Int /\ b \in Int /\ c \in Int
      BY <2>1, CombRound
    <2>3. Comb(n + 1, k + 1) = a + b
      OBVIOUS
    <2>4. Comb(n + 1, k + 2) = ((a + b) * (n - k)) \div (k + 2)
      <3>1. Comb(n + 1, (k + 1) + 1)
              = (Comb(n + 1, k + 1) * ((n + 1) - (k + 1))) \div ((k + 1) + 1)
        BY <2>1, CombRound
      <3> QED
        BY <2>1, <2>3, <3>1
    <2>5. (k + 1) * b = a * (n - k) /\ (k + 2) * c = b * (n - (k + 1))
      <3>1. ((k + 1) + 1) * Comb(n, (k + 1) + 1) = Comb(n, k + 1) * (n - (k + 1))
        BY <2>1 DEF Exact
      <3> QED
        BY <2>1, <3>1 DEF Exact
    <2> HIDE DEF a, b, c
    <2>6. (a + b) * (n - k) = (k + 2) * (b + c)
      BY <2>1, <2>2, <2>5
    <2>7. ((k + 2) * (b + c)) \div (k + 2) = b + c
      BY <2>1, <2>2, ExactDivision
    <2> QED
      BY <2>1, <2>4, <2>6, <2>7 DEF b, c
  <1> HIDE DEF good
  <1>3. \A k \in Nat : k \in good
    <2>1. good \in SUBSET Nat
      BY DEF good
    <2> QED
      BY <1>1, <1>2, <2>1, EveryNumber
  <1> QED
    BY <1>3 DEF Pascal, good

\* Of nothing only nothing can be chosen.
LEMMA FirstRow ==
    \A k \in Nat : Comb(0, k + 1) = 0
  <1> DEFINE none == {k \in Nat : Comb(0, k + 1) = 0}
  <1>1. 0 \in none
    <2>1. Comb(0, 0 + 1) = (1 * (0 - 0)) \div (0 + 1)
      BY CombRound, 0 \in Nat
    <2> QED
      BY <2>1
  <1>2. ASSUME NEW k \in none PROVE k + 1 \in none
    <2>1. k \in Nat /\ k + 1 \in Nat /\ 0 \in Nat /\ Comb(0, k + 1) = 0
      OBVIOUS
    <2>2. Comb(0, (k + 1) + 1) = (0 * (0 - (k + 1))) \div ((k + 1) + 1)
      BY <2>1, CombRound
    <2>3. (0 * (0 - (k + 1))) \div ((k + 1) + 1) = 0
      BY <2>1
    <2> QED
      BY <2>1, <2>2, <2>3
  <1>3. \A k \in Nat : k \in none
    <2> HIDE DEF none
    <2> QED
      BY <1>1, <1>2, EveryNumber DEF none
  <1> QED
    BY <1>3

\* In no row does a division leave a remainder.
LEMMA ExactHolds ==
    \A n \in Nat : Exact(n)
  <1> DEFINE good == {n \in Nat : Exact(n)}
  <1>1. 0 \in good
    <2>1. ASSUME NEW k \in Nat
          PROVE  (k + 1) * Comb(0, k + 1) = Comb(0, k) * (0 - k)
      <3>1. Comb(0, k + 1) = 0 /\ Comb(0, k) \in Int
        BY FirstRow, CombRound, 0 \in Nat
      <3>2. CASE k = 0
        BY <3>1, <3>2
      <3>3. CASE k # 0
        <4>1. k - 1 \in Nat /\ (k - 1) + 1 = k
          BY <3>3
        <4>2. Comb(0, k) = 0
          BY FirstRow, <4>1
        <4> QED
          BY <3>1, <4>2
      <3> QED
        BY <3>2, <3>3
    <2> QED
      BY <2>1 DEF Exact
  <1>2. ASSUME NEW n \in good PROVE n + 1 \in good
    <2>1. n \in Nat /\ Exact(n) /\ n + 1 \in Nat
      OBVIOUS
    <2>2. Pascal(n)
      BY <2>1, PascalHolds
    <2>3. ASSUME NEW k \in Nat
          PROVE  (k + 1) * Comb(n + 1, k + 1) = Comb(n + 1, k) * ((n + 1) - k)
      <3> DEFINE a == Comb(n, k)
                 b == Comb(n, k + 1)
      <3>1. a \in Int /\ b \in Int
        BY <2>1, CombRound, k + 1 \in Nat
      <3>2. Comb(n + 1, k + 1) = a + b /\ (k + 1) * b = a * (n - k)
        BY <2>1, <2>2 DEF Exact, Pascal
      <3>3. CASE k = 0
        <4>1. a = 1 /\ Comb(n + 1, k) = 1
          BY <2>1, <3>3, CombRound
        <4> HIDE DEF a, b
        <4> QED
          BY <2>1, <3>1, <3>2, <3>3, <4>1
      <3>4. CASE k # 0
        <4> DEFINE z == Comb(n, k - 1)
        <4>1. k - 1 \in Nat /\ (k - 1) + 1 = k
          BY <3>4
        <4>2. z \in Int
          BY <2>1, <4>1, CombRound
        <4>3. Comb(n + 1, k) = z + a /\ k * a = z * (n - (k - 1))
          BY <2>1, <2>2, <4>1 DEF Exact, Pascal
        <4> HIDE DEF a, b, z
        <4>4. (k + 1) * (a + b) = (z + a) * ((n + 1) - k)
          BY <2>1, <3>1, <3>2, <4>2, <4>3
        <4> QED
          BY <3>2, <4>3, <4>4
      <3> QED
        BY <3>3, <3>4
    <2> QED
      BY <2>1, <2>3 DEF Exact
  <1> HIDE DEF good
  <1>3. \A n \in Nat : n \in good
    <2>1. good \in SUBSET Nat
      BY DEF good
    <2> QED
      BY <1>1, <1>2, <2>1, EveryNumber
  <1> QED
    BY <1>3 DEF good

\* What the rest of the proofs know of math.comb: Pascal's triangle, in which
\* every row reads the same from either end.
LEMMA CombFacts ==
    ASSUME NEW n \in Nat
    PROVE  /\ \A k \in Nat : Comb(n, k) \in Nat
           /\ Comb(n, 0) = 1
           /\ Comb(n, n + 1) = 0
           /\ Pascal(n)
           /\ \A k \in 0..n : Comb(n, k) = Comb(n, n - k)
  <1>1. \A m \in Nat : Pascal(m) /\ Comb(m, 0) = 1
    BY ExactHolds, PascalHolds, CombRound, 0 \in Nat
  <1>2. \A m \in Nat : Comb(m, m + 1) = 0
    <2> TAKE m \in Nat
    <2>1. (m + 1) * Comb(m, m + 1) = Comb(m, m) * (m - m) /\ Comb(m, m + 1) \in Int
          /\ Comb(m, m) \in Int
      BY ExactHolds, CombRound, m + 1 \in Nat DEF Exact
    <2> QED
      BY <2>1
  <1> DEFINE good == {m \in Nat : /\ \A k \in Nat : Comb(m, k) \in Nat
                                  /\ Comb(m, m) = 1
                                  /\ \A k \in 0..m : Comb(m, k) = Comb(m, m - k)}
  <1>3. 0 \in good
    <2>1. ASSUME NEW k \in Nat, k # 0 PROVE Comb(0, k) = 0
      <3>1. k - 1 \in Nat /\ (k - 1) + 1 = k
        BY <2>1
      <3> QED
        BY FirstRow, <3>1
    <2>2. Comb(0, 0) = 1
      BY <1>1, 0 \in Nat
    <2> QED
      BY <2>1, <2>2
  <1>4. ASSUME NEW m \in good PROVE m + 1 \in good
    <2>1. /\ m \in Nat /\ m + 1 \in Nat
          /\ \A k \in Nat : Comb(m, k) \in Nat
          /\ Comb(m, m) = 1
          /\ \A k \in 0..m : Comb(m, k) = Comb(m, m - k)
      OBVIOUS
    <2> HIDE DEF good
    <2>2. \A k \in Nat : Comb(m + 1, k + 1) = Comb(m, k) + Comb(m, k + 1)
      BY <1>1, <2>1 DEF Pascal
    <2>3. Comb(m + 1, 0) = 1
      BY <1>1, <2>1
    <2>4. ASSUME NEW k \in Nat PROVE Comb(m + 1, k) \in Nat
      <3>1. CASE k = 0
        BY <2>3, <3>1
      <3>2. CASE k # 0
        <4>1. k - 1 \in Nat /\ (k - 1) + 1 = k
          BY <3>2
        <4>2. Comb(m + 1, k) = Comb(m, k - 1) + Comb(m, k)
          BY <2>2, <4>1
        <4>3. Comb(m, k - 1) \in Nat /\ Comb(m, k) \in Nat
          BY <2>1, <4>1
        <4> QED
          BY <4>2, <4>3
      <3> QED
        BY <3>1, <3>2
    <2>5. Comb(m + 1, m + 1) = 1
      BY <1>2, <2>1, <2>2
    <2>6. ASSUME NEW k \in 0..(m + 1) PROVE Comb(m + 1, k) = Comb(m + 1, (m + 1) - k)
      <3>1. CASE k = 0
        BY <2>1, <2>3, <2>5, <3>1
      <3>2. CASE k = m + 1
        BY <2>1, <2>3, <2>5, <3>2
      <3>3. CASE k \in 1..m
        <4> DEFINE j == m - k
        <4>1. /\ k - 1 \in Nat /\ (k - 1) + 1 = k /\ k - 1 \in 0..m /\ k \in 0..m
              /\ j \in Nat /\ (m + 1) - k = j + 1 /\ m - (k - 1) = j + 1
          BY <2>1, <3>3
        <4>2. Comb(m + 1, k) = Comb(m, k - 1) + Comb(m, k)
          BY <2>2, <4>1
        <4>3. Comb(m + 1, j + 1) = Comb(m, j) + Comb(m, j + 1)
          BY <2>2, <4>1
        <4>4. Comb(m, k - 1) = Comb(m, j + 1) /\ Comb(m, k) = Comb(m, j)
          BY <2>1, <4>1
        <4>5. Comb(m, j) \in Nat /\ Comb(m, j + 1) \in Nat
          BY <2>1, <4>1
        <4> HIDE DEF j
        <4> QED
          BY <4>1, <4>2, <4>3, <4>4, <4>5
      <3> QED
        BY <2>1, <3>1, <3>2, <3>3
    <2> QED
      BY <2>1, <2>4, <2>5, <2>6 DEF good
  <1>5. n \in good
    <2> HIDE DEF good
    <2>1. good \in SUBSET Nat
      BY DEF good
    <2> QED
      BY <1>3, <1>4, <2>1, EveryNumber
  <1> QED
    BY <1>1, <1>2, <1>5

\* The ways n targets can fall with k on one side.
Chosen(n, k) == {s \in SUBSET (1..n) : Cardinality(s) = k}

\* math.comb counts the choices of k things out of n.
THEOREM CombCounts ==
    ASSUME NEW n \in Nat
    PROVE  \A k \in Nat : IsFiniteSet(Chosen(n, k)) /\ Comb(n, k) = Cardinality(Chosen(n, k))
  <1> DEFINE good == {m \in Nat : \A k \in Nat : Comb(m, k) = Cardinality(Chosen(m, k))}
  <1>1. \A m \in Nat, k \in Nat : IsFiniteSet(Chosen(m, k))
    <2> TAKE m \in Nat, k \in Nat
    <2>1. IsFiniteSet(SUBSET (1..m)) /\ Chosen(m, k) \in SUBSET (SUBSET (1..m))
      BY FS_Interval, FS_SUBSET, 1 \in Int, m \in Int DEF Chosen
    <2> QED
      BY <2>1, FS_Subset
  <1>2. \A m \in Nat : Chosen(m, 0) = {{}}
    <2> TAKE m \in Nat
    <2>1. ASSUME NEW s \in SUBSET (1..m), Cardinality(s) = 0 PROVE s = {}
      <3>1. IsFiniteSet(1..m)
        BY FS_Interval, 1 \in Int, m \in Int
      <3>2. IsFiniteSet(s)
        BY <3>1, FS_Subset
      <3> QED
        BY <2>1, <3>2, FS_EmptySet
    <2>2. {} \in SUBSET (1..m) /\ Cardinality({}) = 0
      BY FS_EmptySet
    <2> QED
      BY <2>1, <2>2 DEF Chosen
  <1>3. \A m \in Nat : Comb(m, 0) = Cardinality(Chosen(m, 0))
    <2> TAKE m \in Nat
    <2>1. Cardinality(Chosen(m, 0)) = 1
      <3>1. Cardinality({{}}) = 1
        BY FS_Singleton
      <3> QED
        BY <1>2, <3>1
    <2> QED
      BY <2>1, CombFacts
  <1>4. 0 \in good
    <2>1. ASSUME NEW k \in Nat, k # 0 PROVE Comb(0, k) = Cardinality(Chosen(0, k))
      <3>1. Chosen(0, k) = {}
        <4>1. 1..0 = {} /\ Cardinality({}) = 0
          BY FS_EmptySet
        <4>2. \A s \in SUBSET (1..0) : s = {}
          BY <4>1
        <4> QED
          BY <2>1, <4>1, <4>2 DEF Chosen
      <3>2. Comb(0, k) = 0
        <4>1. k - 1 \in Nat /\ (k - 1) + 1 = k
          BY <2>1
        <4> QED
          BY <4>1, FirstRow
      <3> QED
        BY <3>1, <3>2, FS_EmptySet
    <2> QED
      BY <1>3, <2>1, 0 \in Nat
  <1>5. ASSUME NEW m \in good PROVE m + 1 \in good
    <2>1. m \in Nat /\ m + 1 \in Nat
      OBVIOUS
    <2>2. \A k \in Nat : Comb(m, k) = Cardinality(Chosen(m, k))
      OBVIOUS
    <2> HIDE DEF good
    <2>3. ASSUME NEW k \in Nat
          PROVE  Comb(m + 1, k + 1) = Cardinality(Chosen(m + 1, k + 1))
      <3> DEFINE S == 1..m
                 T == 1..(m + 1)
                 few == Chosen(m, k)
                 old == Chosen(m, k + 1)
                 with == {s \in Chosen(m + 1, k + 1) : m + 1 \in s}
      <3>1. T = S \cup {m + 1} /\ m + 1 \notin S
        BY <2>1
      <3>2. IsFiniteSet(S) /\ IsFiniteSet(T)
        BY <2>1, FS_Interval, 1 \in Int
      <3>3. /\ few = {s \in SUBSET S : Cardinality(s) = k}
            /\ old = {s \in SUBSET S : Cardinality(s) = k + 1}
            /\ with = {s \in SUBSET T : Cardinality(s) = k + 1 /\ m + 1 \in s}
            /\ Chosen(m + 1, k + 1) = {s \in SUBSET T : Cardinality(s) = k + 1}
        BY DEF Chosen
      <3> HIDE DEF S, T, few, old, with
      <3>4. Chosen(m + 1, k + 1) = old \cup with /\ old \cap with = {}
        BY <3>1, <3>3
      <3>5. ExistsBijection(few, with)
        <4> DEFINE g == [s \in few |-> s \cup {m + 1}]
        <4>1. ASSUME NEW s \in few PROVE s \cup {m + 1} \in with
          <5>1. s \in SUBSET S /\ Cardinality(s) = k /\ IsFiniteSet(s) /\ m + 1 \notin s
            BY <3>1, <3>2, <3>3, FS_Subset
          <5>2. Cardinality(s \cup {m + 1}) = k + 1
            BY <5>1, FS_AddElement
          <5>3. s \cup {m + 1} \in SUBSET T
            BY <3>1, <5>1
          <5> QED
            BY <3>3, <5>2, <5>3
        <4>2. g \in [few -> with]
          BY <4>1
        <4>3. \A s, t \in few : g[s] = g[t] => s = t
          <5> TAKE s, t \in few
          <5>1. m + 1 \notin s /\ m + 1 \notin t
            BY <3>1, <3>3
          <5>2. g[s] = s \cup {m + 1} /\ g[t] = t \cup {m + 1}
            OBVIOUS
          <5> HIDE DEF g
          <5> QED
            BY <5>1, <5>2
        <4>4. \A t \in with : \E s \in few : g[s] = t
          <5> TAKE t \in with
          <5>1. /\ t \in SUBSET T /\ Cardinality(t) = k + 1 /\ m + 1 \in t
                /\ IsFiniteSet(t)
            BY <3>2, <3>3, FS_Subset
          <5>2. Cardinality(t \ {m + 1}) = k
            <6>1. Cardinality(t \ {m + 1}) = Cardinality(t) - 1
              BY <5>1, FS_RemoveElement
            <6> QED
              BY <5>1, <6>1
          <5>3. t \ {m + 1} \in few /\ (t \ {m + 1}) \cup {m + 1} = t
            BY <3>1, <3>3, <5>1, <5>2
          <5> QED
            BY <5>3
        <4> HIDE DEF g
        <4>5. g \in Bijection(few, with)
          BY <4>2, <4>3, <4>4 DEF Bijection, Injection, Surjection, IsInjective
        <4> QED
          BY <4>5 DEF ExistsBijection
      <3>6. IsFiniteSet(few) /\ IsFiniteSet(old)
        BY <1>1, <2>1 DEF few, old
      <3>7. IsFiniteSet(with) /\ Cardinality(with) = Cardinality(few)
        BY <3>5, <3>6, FS_Bijection
      <3>8. Cardinality(old \cup with)
              = Cardinality(old) + Cardinality(with) - Cardinality({})
        BY <3>4, <3>6, <3>7, FS_Union
      <3>9. /\ Comb(m, k) = Cardinality(few) /\ Comb(m, k + 1) = Cardinality(old)
            /\ Cardinality(few) \in Nat /\ Cardinality(old) \in Nat
        BY <2>2, <3>6, FS_CardinalityType DEF few, old
      <3>10. Comb(m + 1, k + 1) = Comb(m, k) + Comb(m, k + 1)
        BY <2>1, CombFacts DEF Pascal
      <3>11. Cardinality(Chosen(m + 1, k + 1)) = Cardinality(old \cup with)
        BY <3>4
      <3>12. Cardinality({}) = 0
        BY FS_EmptySet
      <3> QED
        BY <3>7, <3>8, <3>9, <3>10, <3>11, <3>12
    <2>4. ASSUME NEW k \in Nat
          PROVE  Comb(m + 1, k) = Cardinality(Chosen(m + 1, k))
      <3>1. CASE k = 0
        BY <1>3, <2>1, <3>1
      <3>2. CASE k # 0
        <4>1. k - 1 \in Nat /\ (k - 1) + 1 = k
          BY <3>2
        <4> QED
          BY <2>3, <4>1
      <3> QED
        BY <3>1, <3>2
    <2> QED
      BY <2>1, <2>4 DEF good
  <1>6. n \in good
    <2>1. good \in SUBSET Nat
      OBVIOUS
    <2> HIDE DEF good
    <2> QED
      BY <1>4, <1>5, <2>1, EveryNumber
  <1> QED
    BY <1>1, <1>6

-----------------------------------------------------------------------------
(* Tails of a row.                                                         *)

\* A tail grows by the next coefficient.
LEMMA TailGrows ==
    ASSUME NEW n \in Nat
    PROVE  /\ TailSum(n, 0) = 1
           /\ \A k \in 0..n : TailSum(n, k) \in Nat
           /\ \A k \in 0..n : k < n => TailSum(n, k + 1) = TailSum(n, k) + Comb(n, k + 1)
  <1> DEFINE f == Splits(n)
  <1>1. \A i \in 0..n : f[i] = Comb(n, i) /\ f[i] \in Nat
    BY CombFacts DEF Splits
  <1>2. \A k \in 0..n : TailSum(n, k) = SumFunctionOnSet(f, 0..k)
    BY DEF TailSum
  <1> HIDE DEF f
  <1>3. ASSUME NEW k \in 0..n, k < n
        PROVE  TailSum(n, k) \in Nat /\ TailSum(n, k + 1) = TailSum(n, k) + Comb(n, k + 1)
    <2> DEFINE S == 0..k
               x == k + 1
    <2>1. S \cup {x} = 0..(k + 1) /\ x \notin S /\ x \in 0..n /\ S \cup {x} \subseteq 0..n
      BY <1>3
    <2>2. IsFiniteSet(S)
      BY FS_Interval
    <2>3. \A y \in S \cup {x} : f[y] \in Nat
      BY <1>1, <2>1
    <2>4. /\ SumFunctionOnSet(f, S) \in Nat
          /\ SumFunctionOnSet(f, S \cup {x}) = f[x] + SumFunctionOnSet(f, S)
      <3> HIDE DEF S, x
      <3> QED
        BY <2>1, <2>2, <2>3, SumAdds
    <2>5. TailSum(n, k) = SumFunctionOnSet(f, S) /\ TailSum(n, x) = SumFunctionOnSet(f, S \cup {x})
      BY <1>2, <2>1
    <2>6. f[x] = Comb(n, x) /\ f[x] \in Nat
      BY <1>1, <2>1
    <2> QED
      BY <2>4, <2>5, <2>6
  <1>4. TailSum(n, 0) = 1
    <2>1. 0..0 = {} \cup {0}
      OBVIOUS
    <2>2. IsFiniteSet({}) /\ f[0] = 1
      BY <1>1, CombFacts, FS_EmptySet, 0 \in 0..n
    <2>3. SumFunctionOnSet(f, {} \cup {0}) = f[0] + SumFunctionOnSet(f, {})
      <3>1. \A y \in {} \cup {0} : f[y] \in Nat
        BY <2>2
      <3>2. 0 \notin {}
        OBVIOUS
      <3> QED
        BY <2>2, <3>1, <3>2, SumAdds
    <2>4. TailSum(n, 0) = SumFunctionOnSet(f, 0..0)
      BY <1>2, 0 \in 0..n
    <2> QED
      BY <2>1, <2>2, <2>3, <2>4, SumOfNone
  <1>5. \A k \in 0..n : TailSum(n, k) \in Nat
    <2> TAKE k \in 0..n
    <2>1. CASE k < n
      BY <1>3, <2>1
    <2>2. CASE k = n /\ n > 0
      <3>1. n - 1 \in 0..n /\ n - 1 < n /\ (n - 1) + 1 = n
        BY <2>2
      <3>2. TailSum(n, n - 1) \in Nat /\ TailSum(n, n) = TailSum(n, n - 1) + Comb(n, n)
        BY <1>3, <3>1
      <3>3. Comb(n, n) \in Nat
        BY CombFacts
      <3> QED
        BY <2>2, <3>2, <3>3
    <2>3. CASE k = 0
      BY <1>4, <2>3
    <2> QED
      BY <2>1, <2>2, <2>3
  <1> QED
    BY <1>3, <1>4, <1>5

\* The more is added up, the more it is.
LEMMA TailMonotone ==
    ASSUME NEW n \in Nat, NEW i \in 0..n, NEW j \in 0..n, i <= j
    PROVE  TailSum(n, i) <= TailSum(n, j)
  <1> DEFINE good == {d \in Nat : i + d <= n => TailSum(n, i) <= TailSum(n, i + d)}
  <1>1. 0 \in good
    BY TailGrows
  <1>2. ASSUME NEW d \in good PROVE d + 1 \in good
    <2> SUFFICES ASSUME i + (d + 1) <= n PROVE TailSum(n, i) <= TailSum(n, i + (d + 1))
      OBVIOUS
    <2>1. i + d \in 0..n /\ i + d < n /\ (i + d) + 1 = i + (d + 1) /\ i + (d + 1) \in Nat
      OBVIOUS
    <2>2. TailSum(n, i) <= TailSum(n, i + d)
      BY <2>1
    <2>3. TailSum(n, i + (d + 1)) = TailSum(n, i + d) + Comb(n, i + (d + 1))
      BY <2>1, TailGrows
    <2>4. TailSum(n, i) \in Nat /\ TailSum(n, i + d) \in Nat /\ Comb(n, i + (d + 1)) \in Nat
      BY <2>1, TailGrows, CombFacts
    <2> QED
      BY <2>2, <2>3, <2>4
  <1>3. j - i \in good
    <2>1. j - i \in Nat /\ good \in SUBSET Nat
      OBVIOUS
    <2> HIDE DEF good
    <2> QED
      BY <1>1, <1>2, <2>1, EveryNumber
  <1>4. i + (j - i) = j
    OBVIOUS
  <1> QED
    BY <1>3, <1>4

\* The tails of one more target: the new one falls to one side or the other.
LEMMA TailOfNextRow ==
    ASSUME NEW n \in Nat
    PROVE  \A k \in 0..n : /\ k < n => TailSum(n + 1, k + 1) = TailSum(n, k + 1) + TailSum(n, k)
                           /\ k = n => TailSum(n + 1, k + 1) = 2 * TailSum(n, k)
  <1> DEFINE good == {k \in Nat : k < n => TailSum(n + 1, k + 1) = TailSum(n, k + 1) + TailSum(n, k)}
  <1>1. \A k \in 0..n : /\ TailSum(n + 1, k + 1) = TailSum(n + 1, k) + Comb(n + 1, k + 1)
                        /\ TailSum(n + 1, k) \in Nat
                        /\ Comb(n + 1, k + 1) = Comb(n, k) + Comb(n, k + 1)
                        /\ TailSum(n, k) \in Nat
                        /\ Comb(n, k) \in Nat
                        /\ Comb(n, k + 1) \in Nat
                        /\ k < n => TailSum(n, k + 1) = TailSum(n, k) + Comb(n, k + 1)
    <2> TAKE k \in 0..n
    <2>1. n + 1 \in Nat /\ k \in Nat /\ k + 1 \in Nat /\ k \in 0..(n + 1) /\ k < n + 1
      OBVIOUS
    <2> QED
      BY <2>1, TailGrows, CombFacts DEF Pascal
  <1>2. TailSum(n + 1, 0) = 1 /\ TailSum(n, 0) = 1 /\ Comb(n, 0) = 1 /\ Comb(n, n + 1) = 0
    BY TailGrows, CombFacts, n + 1 \in Nat
  <1>3. 0 \in good
    <2>1. CASE n > 0
      <3>1. /\ TailSum(n + 1, 0 + 1) = TailSum(n + 1, 0) + Comb(n + 1, 0 + 1)
            /\ Comb(n + 1, 0 + 1) = Comb(n, 0) + Comb(n, 0 + 1)
            /\ TailSum(n, 0 + 1) = TailSum(n, 0) + Comb(n, 0 + 1)
            /\ Comb(n, 0 + 1) \in Nat
        BY <1>1, <2>1, 0 \in 0..n
      <3> QED
        BY <1>2, <3>1
    <2>2. CASE n = 0
      BY <2>2
    <2> QED
      BY <2>1, <2>2
  <1>4. ASSUME NEW k \in good PROVE k + 1 \in good
    <2> SUFFICES ASSUME k + 1 < n
                 PROVE  TailSum(n + 1, (k + 1) + 1) = TailSum(n, (k + 1) + 1) + TailSum(n, k + 1)
      OBVIOUS
    <2>1. k \in 0..n /\ k < n /\ k + 1 \in 0..n
      OBVIOUS
    <2>2. TailSum(n + 1, k + 1) = TailSum(n, k + 1) + TailSum(n, k)
      BY <2>1
    <2>3. /\ TailSum(n + 1, (k + 1) + 1) = TailSum(n + 1, k + 1) + Comb(n + 1, (k + 1) + 1)
          /\ Comb(n + 1, (k + 1) + 1) = Comb(n, k + 1) + Comb(n, (k + 1) + 1)
          /\ TailSum(n, (k + 1) + 1) = TailSum(n, k + 1) + Comb(n, (k + 1) + 1)
          /\ TailSum(n, k + 1) = TailSum(n, k) + Comb(n, k + 1)
          /\ TailSum(n, k + 1) \in Nat /\ Comb(n, (k + 1) + 1) \in Nat
          /\ TailSum(n, k) \in Nat /\ Comb(n, k + 1) \in Nat
      BY <1>1, <2>1
    <2> QED
      BY <2>2, <2>3
  <1>5. \A k \in Nat : k \in good
    <2>1. good \in SUBSET Nat
      OBVIOUS
    <2> HIDE DEF good
    <2> QED
      BY <1>3, <1>4, <2>1, EveryNumber
  <1>6. TailSum(n + 1, n + 1) = 2 * TailSum(n, n)
    <2>1. /\ TailSum(n + 1, n + 1) = TailSum(n + 1, n) + Comb(n + 1, n + 1)
          /\ Comb(n + 1, n + 1) = Comb(n, n)
          /\ TailSum(n, n) \in Nat /\ Comb(n, n) \in Nat
      BY <1>1, <1>2, n \in 0..n
    <2>2. CASE n = 0
      BY <1>2, <2>1, <2>2
    <2>3. CASE n # 0
      <3>1. n - 1 \in 0..n /\ n - 1 < n /\ (n - 1) + 1 = n
        BY <2>3
      <3>2. TailSum(n + 1, n) = TailSum(n, n) + TailSum(n, n - 1)
        BY <1>5, <3>1
      <3>3. TailSum(n, n) = TailSum(n, n - 1) + Comb(n, n) /\ TailSum(n, n - 1) \in Nat
        BY <1>1, <3>1
      <3> QED
        BY <2>1, <3>2, <3>3
    <2> QED
      BY <2>2, <2>3
  <1> QED
    BY <1>5, <1>6

\* All the ways n targets can fall are 2^n.
LEMMA WholeRow ==
    ASSUME NEW n \in Nat
    PROVE  TailSum(n, n) = 2^n
  <1> DEFINE good == {m \in Nat : TailSum(m, m) = 2^m}
  <1>1. 0 \in good
    BY TailGrows, PowersOfTwo, 0 \in Nat
  <1>2. ASSUME NEW m \in good PROVE m + 1 \in good
    <2>1. m \in 0..m /\ m \in Nat /\ m + 1 \in Nat /\ TailSum(m, m) = 2^m
      OBVIOUS
    <2>2. TailSum(m + 1, m + 1) = 2 * TailSum(m, m)
      BY <2>1, TailOfNextRow
    <2>3. 2^(m + 1) = 2 * 2^m
      BY <2>1, PowersOfTwo
    <2> QED
      BY <2>1, <2>2, <2>3
  <1> QED
    <2>1. good \in SUBSET Nat
      OBVIOUS
    <2> HIDE DEF good
    <2>2. n \in good
      BY <1>1, <1>2, <2>1, EveryNumber
    <2> QED
      BY <2>2 DEF good

\* The last k + 1 coefficients add up to the tail of the first k + 1.
LEMMA UpperTail ==
    ASSUME NEW n \in Nat, NEW k \in 0..n
    PROVE  SumFunctionOnSet(Splits(n), (n - k)..n) = TailSum(n, k)
  <1> DEFINE f == Splits(n)
             good == {i \in Nat : i <= n =>
                         SumFunctionOnSet(f, (n - i)..n) = TailSum(n, i)}
  <1>1. \A i \in 0..n : f[i] = Comb(n, i) /\ f[i] = f[n - i] /\ f[i] \in Nat
    <2> TAKE i \in 0..n
    <2>1. n - i \in 0..n /\ i \in Nat
      OBVIOUS
    <2>2. f[i] = Comb(n, i) /\ f[n - i] = Comb(n, n - i)
      BY <2>1 DEF Splits
    <2> QED
      BY <2>1, <2>2, CombFacts
  <1> HIDE DEF f
  <1>2. 0 \in good
    <2>1. (n - 0)..n = {} \cup {n} /\ n \notin {}
      OBVIOUS
    <2>2. IsFiniteSet({}) /\ f[n] = 1
      <3>1. f[n] = f[n - n] /\ n - n = 0 /\ f[0] = Comb(n, 0)
        BY <1>1, n \in 0..n, 0 \in 0..n
      <3> QED
        BY <3>1, CombFacts, FS_EmptySet
    <2>3. SumFunctionOnSet(f, {} \cup {n}) = f[n] + SumFunctionOnSet(f, {})
      BY <2>1, <2>2, SumAdds
    <2> QED
      BY <2>1, <2>2, <2>3, SumOfNone, TailGrows
  <1>3. ASSUME NEW i \in good PROVE i + 1 \in good
    <2> SUFFICES ASSUME i + 1 <= n
                 PROVE  SumFunctionOnSet(f, (n - (i + 1))..n) = TailSum(n, i + 1)
      OBVIOUS
    <2> DEFINE S == (n - i)..n
               x == n - (i + 1)
    <2>1. /\ i \in 0..n /\ i < n /\ i + 1 \in 0..n /\ n - x = i + 1
          /\ S \cup {x} = x..n /\ x \notin S /\ S \cup {x} \subseteq 0..n /\ x \in 0..n
          /\ n - i \in Int /\ n \in Int
      OBVIOUS
    <2>2. IsFiniteSet(S)
      BY <2>1, FS_Interval
    <2>3. SumFunctionOnSet(f, S \cup {x}) = f[x] + SumFunctionOnSet(f, S)
      <3>1. \A y \in S \cup {x} : f[y] \in Nat
        BY <1>1, <2>1
      <3> HIDE DEF S, x
      <3> QED
        BY <2>1, <2>2, <3>1, SumAdds
    <2>4. f[x] = Comb(n, i + 1) /\ f[x] \in Nat
      BY <1>1, <2>1
    <2>5. SumFunctionOnSet(f, S) = TailSum(n, i)
      BY <2>1
    <2>6. TailSum(n, i + 1) = TailSum(n, i) + Comb(n, i + 1) /\ TailSum(n, i) \in Nat
      BY <2>1, TailGrows
    <2> HIDE DEF S, x
    <2>7. SumFunctionOnSet(f, x..n) = TailSum(n, i + 1)
      <3>1. SumFunctionOnSet(f, x..n) = SumFunctionOnSet(f, S \cup {x})
        BY <2>1
      <3>2. SumFunctionOnSet(f, x..n) = Comb(n, i + 1) + TailSum(n, i)
        BY <2>3, <2>4, <2>5, <3>1
      <3>3. Comb(n, i + 1) \in Nat
        BY <2>4
      <3> QED
        BY <2>6, <3>2, <3>3
    <2> QED
      BY <2>7 DEF x
  <1>4. k \in good
    <2>1. good \in SUBSET Nat /\ k \in Nat
      OBVIOUS
    <2> HIDE DEF good
    <2> QED
      BY <1>2, <1>3, <2>1, EveryNumber
  <1> QED
    BY <1>4 DEF f

\* A tail and the tail of the rest make the row.
LEMMA TwoTails ==
    ASSUME NEW n \in Nat, NEW k \in 0..n, k < n
    PROVE  2^n = TailSum(n, k) + TailSum(n, n - (k + 1))
  <1> DEFINE f == Splits(n)
             S == 0..k
             T == (n - (n - (k + 1)))..n
  <1>1. /\ n - (k + 1) \in 0..n /\ S \cup T = 0..n /\ S \cap T = {}
        /\ n - (n - (k + 1)) \in Int /\ n \in Int /\ 0 \in Int /\ k \in Int
    OBVIOUS
  <1>2. IsFiniteSet(S) /\ IsFiniteSet(T)
    BY <1>1, FS_Interval
  <1>3. \A i \in S \cup T : f[i] \in Nat
    <2> TAKE i \in S \cup T
    <2>1. i \in 0..n /\ i \in Nat
      BY <1>1
    <2>2. f[i] = Comb(n, i)
      BY <2>1 DEF Splits
    <2> QED
      BY <2>1, <2>2, CombFacts
  <1>4. SumFunctionOnSet(f, T) = TailSum(n, n - (k + 1))
    BY <1>1, UpperTail
  <1>5. SumFunctionOnSet(f, S) = TailSum(n, k) /\ SumFunctionOnSet(f, 0..n) = TailSum(n, n)
    BY DEF TailSum
  <1> HIDE DEF f, S, T
  <1>6. SumFunctionOnSet(f, S \cup T) = SumFunctionOnSet(f, S) + SumFunctionOnSet(f, T)
    BY <1>1, <1>2, <1>3, SumOfUnion
  <1> QED
    BY <1>1, <1>4, <1>5, <1>6, WholeRow

-----------------------------------------------------------------------------
(* McNemar's tests.                                                        *)

\* mcnemar_exact_p without its special case, and on which side of the cap it is.
LEMMA ExactPValue ==
    ASSUME NEW b \in Nat, NEW c \in Nat
    PROVE  LET n == b + c
               k == Smaller(b, c)
           IN  /\ n \in Nat /\ k \in 0..n /\ k <= n - k
               /\ 2^n \in Nat /\ TailSum(n, k) \in Nat
               /\ ExactP(b, c) = Smaller(2^n, 2 * TailSum(n, k))
               /\ k < n - k => 2 * TailSum(n, k) <= 2^n
               /\ k = n - k => 2^n <= 2 * TailSum(n, k)
  <1> DEFINE n == b + c
             k == Smaller(b, c)
  <1>1. n \in Nat /\ k \in 0..n /\ k <= n - k
    BY DEF Smaller
  <1>2. TailSum(n, k) \in Nat /\ 2^n \in Nat
    BY <1>1, TailGrows, PowersOfTwo
  <1>3. n = 0 => k = 0 /\ 2^n = 1 /\ TailSum(n, k) = 1
    <2>1. 2^0 = 1 /\ TailSum(0, 0) = 1
      BY TailGrows, PowersOfTwo, 0 \in Nat
    <2>2. n = 0 => k = 0
      BY <1>1
    <2> HIDE DEF n, k
    <2> QED
      BY <2>1, <2>2
  <1>4. ExactP(b, c) = IF n = 0 THEN 1 ELSE Smaller(2^n, 2 * TailSum(n, k))
    BY DEF ExactP
  <1> HIDE DEF n, k
  <1>5. ExactP(b, c) = Smaller(2^n, 2 * TailSum(n, k))
    <2>1. Smaller(1, 2 * 1) = 1
      BY DEF Smaller
    <2> QED
      BY <1>3, <1>4, <2>1
  <1>6. ASSUME k < n - k PROVE 2 * TailSum(n, k) <= 2^n
    <2>1. k < n /\ n - (k + 1) \in 0..n /\ k <= n - (k + 1)
      BY <1>1, <1>6
    <2>2. TailSum(n, k) <= TailSum(n, n - (k + 1)) /\ TailSum(n, n - (k + 1)) \in Nat
      BY <1>1, <2>1, TailMonotone, TailGrows
    <2>3. 2^n = TailSum(n, k) + TailSum(n, n - (k + 1))
      BY <1>1, <2>1, TwoTails
    <2> QED
      BY <1>2, <2>2, <2>3
  <1>7. ASSUME k = n - k PROVE 2^n <= 2 * TailSum(n, k)
    <2>1. CASE n = 0
      BY <1>3, <2>1
    <2>2. CASE n # 0
      <3>1. k < n /\ n - (k + 1) \in 0..n /\ n - (k + 1) <= k
        BY <1>1, <1>7, <2>2
      <3>2. TailSum(n, n - (k + 1)) <= TailSum(n, k) /\ TailSum(n, n - (k + 1)) \in Nat
        BY <1>1, <3>1, TailMonotone, TailGrows
      <3>3. 2^n = TailSum(n, k) + TailSum(n, n - (k + 1))
        BY <1>1, <3>1, TwoTails
      <3> QED
        BY <1>2, <3>2, <3>3
    <2> QED
      BY <2>1, <2>2
  <1> QED
    BY <1>1, <1>2, <1>5, <1>6, <1>7 DEF n, k

\* mcnemar_exact_p: twice the smaller tail, capped at 1, is the probability of
\* all the splits at least as uneven as the observed one.
THEOREM TwoSided ==
    ASSUME NEW b \in Nat, NEW c \in Nat
    PROVE  ExactP(b, c) =
             SumFunctionOnSet(Splits(b + c),
                {i \in 0..(b + c) : Difference(i, b + c - i) >= Difference(b, c)})
  <1> DEFINE n == b + c
             k == Smaller(b, c)
             extreme == {i \in 0..n : Difference(i, n - i) >= Difference(b, c)}
             low == 0..k
             high == (n - k)..n
  <1>1. /\ n \in Nat /\ k \in 0..n /\ k <= n - k
        /\ 2^n \in Nat /\ TailSum(n, k) \in Nat
        /\ ExactP(b, c) = Smaller(2^n, 2 * TailSum(n, k))
        /\ k < n - k => 2 * TailSum(n, k) <= 2^n
        /\ k = n - k => 2^n <= 2 * TailSum(n, k)
    BY ExactPValue
  <1>2. extreme = low \cup high
    BY DEF Smaller, Difference
  <1> HIDE DEF extreme
  <1>3. CASE k < n - k
    <2>1. low \cap high = {}
      BY <1>1, <1>3
    <2>2. IsFiniteSet(low) /\ IsFiniteSet(high)
      <3>1. 0 \in Int /\ k \in Int /\ n - k \in Int /\ n \in Int
        BY <1>1
      <3> QED
        BY <3>1, FS_Interval
    <2>3. \A i \in low \cup high : Splits(n)[i] \in Nat
      <3> TAKE i \in low \cup high
      <3>1. i \in 0..n /\ i \in Nat
        BY <1>1
      <3>2. Splits(n)[i] = Comb(n, i)
        BY <3>1 DEF Splits
      <3> QED
        BY <1>1, <3>1, <3>2, CombFacts
    <2>4. /\ SumFunctionOnSet(Splits(n), high) = TailSum(n, k)
          /\ SumFunctionOnSet(Splits(n), low) = TailSum(n, k)
      BY <1>1, UpperTail DEF TailSum
    <2> HIDE DEF low, high, n, k
    <2>5. SumFunctionOnSet(Splits(n), low \cup high)
            = SumFunctionOnSet(Splits(n), low) + SumFunctionOnSet(Splits(n), high)
      BY <2>1, <2>2, <2>3, SumOfUnion
    <2>6. SumFunctionOnSet(Splits(n), extreme) = 2 * TailSum(n, k)
      BY <1>1, <1>2, <2>4, <2>5
    <2>7. Smaller(2^n, 2 * TailSum(n, k)) = 2 * TailSum(n, k)
      BY <1>1, <1>3 DEF Smaller
    <2>8. ExactP(b, c) = SumFunctionOnSet(Splits(n), extreme)
      BY <1>1, <2>6, <2>7
    <2> QED
      BY <2>8 DEF n, extreme
  <1>4. CASE k = n - k
    <2>1. low \cup high = 0..n
      BY <1>1, <1>4
    <2>2. SumFunctionOnSet(Splits(n), 0..n) = 2^n
      BY <1>1, WholeRow DEF TailSum
    <2>3. Smaller(2^n, 2 * TailSum(n, k)) = 2^n
      <3> HIDE DEF n, k
      <3> QED
        BY <1>1, <1>4 DEF Smaller
    <2>4. extreme = 0..n
      BY <1>2, <2>1
    <2>5. ExactP(b, c) = SumFunctionOnSet(Splits(n), extreme)
      <3> HIDE DEF n, k
      <3> QED
        BY <1>1, <2>2, <2>3, <2>4
    <2> QED
      BY <2>5 DEF n, extreme
  <1>5. k < n - k \/ k = n - k
    <2> HIDE DEF n, k
    <2> QED
      BY <1>1
  <1> QED
    BY <1>3, <1>4, <1>5

\* mcnemar: of two splits of as many targets the more uneven one has no smaller
\* statistic and no larger p-value.
THEOREM TestsRankAlike ==
    ASSUME NEW b \in Nat, NEW c \in Nat, NEW i \in 0..(b + c),
           Difference(i, b + c - i) <= Difference(b, c)
    PROVE  /\ b # c => ChiSquare(i, b + c - i) <= ChiSquare(b, c)
           /\ ExactP(i, b + c - i) >= ExactP(b, c)
  <1> DEFINE n == b + c
             j == n - i
             k == Smaller(b, c)
             m == Smaller(i, j)
  <1>1. i \in Nat /\ j \in Nat /\ n \in Nat /\ i + j = n
    OBVIOUS
  <1>2. ASSUME b # c PROVE ChiSquare(i, j) <= ChiSquare(b, c)
    <2> DEFINE d == Difference(b, c)
               e == Difference(i, j)
    <2>1. d \in Nat /\ e \in Nat /\ d > 0 /\ e <= d
      BY <1>1, <1>2 DEF Difference
    <2>2. ~(e = 0 /\ d = 1)
      BY <1>1 DEF Difference
    <2>3. ChiSquare(i, j) = (e - 1) * (e - 1) /\ ChiSquare(b, c) = (d - 1) * (d - 1)
      BY DEF ChiSquare, Square
    <2> HIDE DEF d, e
    <2>4. (e - 1) * (e - 1) <= (d - 1) * (d - 1)
      BY <2>1, <2>2
    <2> QED
      BY <2>3, <2>4
  <1>3. k <= m /\ m \in 0..n /\ k \in 0..n
    BY <1>1 DEF Smaller, Difference
  <1>4. /\ ExactP(b, c) = Smaller(2^n, 2 * TailSum(n, k))
        /\ 2^n \in Nat /\ TailSum(n, k) \in Nat
    BY ExactPValue
  <1>5. ExactP(i, j) = Smaller(2^n, 2 * TailSum(n, m)) /\ TailSum(n, m) \in Nat
    <2> HIDE DEF n, j
    <2> QED
      BY <1>1, ExactPValue
  <1>6. TailSum(n, k) <= TailSum(n, m)
    BY <1>1, <1>3, TailMonotone
  <1>7. ExactP(i, j) >= ExactP(b, c)
    <2> HIDE DEF n, j, k, m
    <2> QED
      BY <1>4, <1>5, <1>6 DEF Smaller
  <1> QED
    BY <1>2, <1>7

\* One more target for the detector that leads does not raise the p-value.
LEMMA LeadGrows ==
    ASSUME NEW b \in Nat, NEW c \in Nat, NEW b2 \in Nat, NEW c2 \in Nat,
           b2 + c2 = b + c + 1, Smaller(b2, c2) = Smaller(b, c)
    PROVE  ExactP(b2, c2) <= 2 * ExactP(b, c)
  <1> DEFINE n == b + c
             k == Smaller(b, c)
  <1>1. /\ n \in Nat /\ k \in 0..n /\ 2^n \in Nat /\ TailSum(n, k) \in Nat
        /\ ExactP(b, c) = Smaller(2^n, 2 * TailSum(n, k))
    BY ExactPValue
  <1>2. /\ ExactP(b2, c2) = Smaller(2^(n + 1), 2 * TailSum(n + 1, k))
        /\ TailSum(n + 1, k) \in Nat
    <2> DEFINE n2 == b2 + c2
               k2 == Smaller(b2, c2)
    <2>1. /\ ExactP(b2, c2) = Smaller(2^n2, 2 * TailSum(n2, k2))
          /\ TailSum(n2, k2) \in Nat
      BY ExactPValue
    <2>2. n2 = n + 1 /\ k2 = k
      OBVIOUS
    <2> HIDE DEF n2, k2, n, k
    <2> QED
      BY <2>1, <2>2
  <1> HIDE DEF n, k
  <1>3. 2^(n + 1) = 2 * 2^n
    BY <1>1, PowersOfTwo
  <1>4. TailSum(n + 1, k) <= 2 * TailSum(n, k)
    <2>1. CASE k = 0
      <3>1. TailSum(n + 1, 0) = 1 /\ TailSum(n, 0) = 1
        BY <1>1, TailGrows, n + 1 \in Nat
      <3> QED
        BY <2>1, <3>1
    <2>2. CASE k # 0
      <3>1. k - 1 \in 0..n /\ k - 1 < n /\ (k - 1) + 1 = k /\ k - 1 <= k
        BY <1>1, <2>2
      <3>2. TailSum(n + 1, k) = TailSum(n, k) + TailSum(n, k - 1)
        BY <1>1, <3>1, TailOfNextRow
      <3>3. TailSum(n, k - 1) <= TailSum(n, k) /\ TailSum(n, k - 1) \in Nat
        BY <1>1, <3>1, TailMonotone, TailGrows
      <3> QED
        BY <1>1, <3>2, <3>3
    <2> QED
      BY <2>1, <2>2
  <1> QED
    BY <1>1, <1>2, <1>3, <1>4 DEF Smaller

\* One more target for the other does not lower it.
LEMMA LeadShrinks ==
    ASSUME NEW b \in Nat, NEW c \in Nat, NEW b2 \in Nat, NEW c2 \in Nat,
           b2 + c2 = b + c + 1, Smaller(b2, c2) = Smaller(b, c) + 1
    PROVE  ExactP(b2, c2) >= 2 * ExactP(b, c)
  <1> DEFINE n == b + c
             k == Smaller(b, c)
  <1>1. /\ n \in Nat /\ k \in 0..n /\ 2^n \in Nat /\ TailSum(n, k) \in Nat
        /\ ExactP(b, c) = Smaller(2^n, 2 * TailSum(n, k))
    BY ExactPValue
  <1>2. /\ ExactP(b2, c2) = Smaller(2^(n + 1), 2 * TailSum(n + 1, k + 1))
        /\ TailSum(n + 1, k + 1) \in Nat
        /\ k + 1 <= (n + 1) - (k + 1)
    <2> DEFINE n2 == b2 + c2
               k2 == Smaller(b2, c2)
    <2>1. /\ ExactP(b2, c2) = Smaller(2^n2, 2 * TailSum(n2, k2))
          /\ TailSum(n2, k2) \in Nat
          /\ k2 <= n2 - k2
      BY ExactPValue
    <2>2. n2 = n + 1 /\ k2 = k + 1
      OBVIOUS
    <2> HIDE DEF n2, k2, n, k
    <2> QED
      BY <2>1, <2>2
  <1> HIDE DEF n, k
  <1>3. 2^(n + 1) = 2 * 2^n
    BY <1>1, PowersOfTwo
  <1>4. k < n /\ k + 1 \in 0..n /\ k <= k + 1
    BY <1>1, <1>2
  <1>5. TailSum(n + 1, k + 1) = TailSum(n, k + 1) + TailSum(n, k)
    BY <1>1, <1>4, TailOfNextRow
  <1>6. TailSum(n, k) <= TailSum(n, k + 1) /\ TailSum(n, k + 1) \in Nat
    BY <1>1, <1>4, TailMonotone, TailGrows
  <1> QED
    BY <1>1, <1>2, <1>3, <1>5, <1>6 DEF Smaller

-----------------------------------------------------------------------------
(* However many targets are compared.                                      *)

\* mcnemar_exact_p returns the probability its comment promises.
THEOREM ExactPCorrect == Spec => []ExactIsTwoSided
  <1>1. Counts => ExactIsTwoSided
    BY TwoSided DEF Counts, ExactIsTwoSided, discordant
  <1> QED
    BY <1>1, CountsInvariance, PTL

\* The statistic and the p-value of mcnemar never contradict each other.
THEOREM TestsConsistent == Spec => []TestsAgree
  <1>1. Counts => TestsAgree
    <2> SUFFICES ASSUME Counts, Note(onlyA, onlyB) = "chi-square",
                        NEW i \in 0..discordant,
                        Difference(i, discordant - i) <= Difference(onlyA, onlyB)
                 PROVE  /\ ChiSquare(i, discordant - i) <= ChiSquare(onlyA, onlyB)
                        /\ ExactP(i, discordant - i) >= ExactP(onlyA, onlyB)
      BY DEF TestsAgree
    <2>1. onlyA \in Nat /\ onlyB \in Nat
      BY DEF Counts
    <2>2. /\ onlyA # onlyB => ChiSquare(i, discordant - i) <= ChiSquare(onlyA, onlyB)
          /\ ExactP(i, discordant - i) >= ExactP(onlyA, onlyB)
      BY <2>1, TestsRankAlike DEF discordant
    <2>3. CASE onlyA = onlyB
      <3>1. Difference(i, discordant - i) = 0 /\ Difference(onlyA, onlyB) = 0
        BY <2>1, <2>3 DEF Difference, discordant
      <3> QED
        BY <2>2, <3>1 DEF ChiSquare, Square
    <2> QED
      BY <2>2, <2>3
  <1> QED
    BY <1>1, CountsInvariance, PTL

\* The p-value of mcnemar_exact_p follows the evidence, target by target.
THEOREM EvidenceFollowed == Spec => EvidenceCounts
  <1> DEFINE Follows ==
               IF Difference(onlyA, onlyB)' > Difference(onlyA, onlyB)
               THEN ExactP(onlyA, onlyB)' <= 2 * ExactP(onlyA, onlyB)
               ELSE ExactP(onlyA, onlyB)' >= 2 * ExactP(onlyA, onlyB)
  <1>1. ASSUME NEW b \in Nat, NEW c \in Nat, NEW b2 \in Nat, NEW c2 \in Nat,
               (b2 = b + 1 /\ c2 = c) \/ (b2 = b /\ c2 = c + 1)
        PROVE  IF Difference(b2, c2) > Difference(b, c)
               THEN ExactP(b2, c2) <= 2 * ExactP(b, c)
               ELSE ExactP(b2, c2) >= 2 * ExactP(b, c)
    <2>1. b2 + c2 = b + c + 1
      BY <1>1
    <2>2. CASE Difference(b2, c2) > Difference(b, c)
      <3>1. Smaller(b2, c2) = Smaller(b, c)
        BY <1>1, <2>2 DEF Difference, Smaller
      <3> QED
        BY <2>1, <2>2, <3>1, LeadGrows
    <2>3. CASE ~(Difference(b2, c2) > Difference(b, c))
      <3>1. Smaller(b2, c2) = Smaller(b, c) + 1
        BY <1>1, <2>3 DEF Difference, Smaller
      <3> QED
        BY <2>1, <2>3, <3>1, LeadShrinks
    <2> QED
      BY <2>2, <2>3
  <1>2. ASSUME Counts, Disagree PROVE Follows
    <2>1. /\ onlyA \in Nat /\ onlyB \in Nat /\ onlyA' \in Nat /\ onlyB' \in Nat
          /\ (onlyA' = onlyA + 1 /\ onlyB' = onlyB) \/ (onlyA' = onlyA /\ onlyB' = onlyB + 1)
      BY <1>2 DEF Counts, Disagree
    <2> QED
      BY <1>1, <2>1
  <1>3. Counts => [Disagree => Follows]_statisticsVars
    BY <1>2
  <1> QED
    BY <1>3, CountsInvariance, PTL DEF EvidenceCounts

=============================================================================
