----------------------------- MODULE Induction -----------------------------
(***************************************************************************)
(* Facts about loops and sums that the proofs of several components need.  *)
(* They stand in for induction: what fails for some number fails for a     *)
(* least one.                                                              *)
(***************************************************************************)
EXTENDS Functions, FiniteSetTheorems, TLAPS

\* The least number principle.
LEMMA LeastNumber ==
    ASSUME NEW T \in SUBSET Nat, T # {}
    PROVE  \E n \in T : \A m \in T : n <= m
  <1> DEFINE less == OpToRel(<, Nat)
  <1>1. IsWellFoundedOn(less, Nat)
    BY NatLessThanWellFounded
  <1>2. \A x, y \in Nat : x < y => <<x, y>> \in less
    BY DEF OpToRel
  <1> HIDE DEF less
  <1>3. PICK n \in T : \A m \in T : ~(<<m, n>> \in less)
    BY <1>1, WFMin
  <1>4. \A m \in T : ~(m < n)
    BY <1>2, <1>3
  <1> QED
    BY <1>4

\* A set of numbers that holds 0, and the next number with each, holds all.
LEMMA EveryNumber ==
    ASSUME NEW T \in SUBSET Nat, 0 \in T, \A n \in T : n + 1 \in T
    PROVE  \A n \in Nat : n \in T
  <1> DEFINE left == Nat \ T
  <1>1. ASSUME left # {} PROVE FALSE
    <2>1. PICK n \in left : \A m \in left : n <= m
      BY <1>1, LeastNumber
    <2>2. n \in Nat /\ n # 0 /\ n \notin T
      OBVIOUS
    <2>3. n - 1 \in Nat /\ n - 1 < n /\ (n - 1) + 1 = n
      BY <2>2
    <2>4. n - 1 \in T
      BY <2>1, <2>3
    <2> QED
      BY <2>2, <2>3, <2>4
  <1> QED
    BY <1>1

\* f is what a loop of n rounds goes through that starts at start, all in V, and
\* whose round i makes step[i][x] of x.
IsLoop(f, V, start, n, step) ==
    /\ f \in [0..n -> V]
    /\ f[0] = start
    /\ \A i \in 1..n : f[i] = step[i][f[i - 1]]

\* Every loop goes through something.
LEMMA LoopExists ==
    ASSUME NEW V, NEW start \in V, NEW n \in Nat, NEW step \in [1..n -> [V -> V]]
    PROVE  \E f : IsLoop(f, V, start, n, step)
  <1> USE DEF IsLoop
  <1> DEFINE Loop(m, f) == IsLoop(f, V, start, m, step)
             open == {m \in 0..n : ~ \E f : Loop(m, f)}
  <1> SUFFICES ASSUME n \in open PROVE FALSE
    OBVIOUS
  <1>1. PICK m \in open : \A k \in open : m <= k
    <2>1. open \in SUBSET Nat
      OBVIOUS
    <2> HIDE DEF open
    <2> QED
      BY <2>1, LeastNumber
  <1>2. m \in Nat /\ m <= n
    OBVIOUS
  <1>3. m # 0
    <2>1. Loop(0, [i \in 0..0 |-> start])
      OBVIOUS
    <2> HIDE DEF Loop
    <2> QED
      BY <1>1, <2>1
  <1>4. PICK f : Loop(m - 1, f)
    <2>1. m - 1 \in 0..n /\ m - 1 \notin open
      <3> HIDE DEF open
      <3> QED
        BY <1>1, <1>2, <1>3
    <2> HIDE DEF Loop
    <2> QED
      BY <2>1
  <1> DEFINE longer == [i \in 0..m |-> IF i = m THEN step[m][f[m - 1]] ELSE f[i]]
  <1>5. f[m - 1] \in V /\ step[m][f[m - 1]] \in V
    <2>1. f[m - 1] \in V
      BY <1>2, <1>3, <1>4
    <2>2. step[m] \in [V -> V]
      BY <1>2, <1>3
    <2> QED
      BY <2>1, <2>2
  <1>6. longer \in [0..m -> V]
    <2> SUFFICES ASSUME NEW i \in 0..m PROVE longer[i] \in V
      BY <1>5
    <2>1. CASE i = m
      BY <1>5, <2>1
    <2>2. CASE i # m
      BY <1>2, <1>4, <2>2
    <2> QED
      BY <2>1, <2>2
  <1>7. \A i \in 1..m : longer[i] = step[i][longer[i - 1]]
    <2> SUFFICES ASSUME NEW i \in 1..m PROVE longer[i] = step[i][longer[i - 1]]
      OBVIOUS
    <2>1. longer[i - 1] = f[i - 1]
      BY <1>2
    <2>2. CASE i = m
      BY <1>2, <2>1, <2>2
    <2>3. CASE i # m
      BY <1>2, <1>4, <2>1, <2>3
    <2> QED
      BY <2>2, <2>3
  <1>8. Loop(m, longer)
    BY <1>2, <1>3, <1>4, <1>6, <1>7
  <1> HIDE DEF Loop, longer
  <1> QED
    BY <1>1, <1>8

\* A least set, like the least number.
LEMMA LeastSet ==
    ASSUME NEW S, IsFiniteSet(S), NEW T \in SUBSET SUBSET S, T # {}
    PROVE  \E s \in T : \A x \in s : s \ {x} \notin T
  <1> DEFINE less == StrictSubsetOrdering(S)
  <1>1. IsWellFoundedOn(less, SUBSET S)
    BY FS_StrictSubsetOrderingWellFounded, FS_FiniteSubsetsOfFinite
  <1>2. \A s, t \in SUBSET S : s # t /\ s \subseteq t => <<s, t>> \in less
    BY DEF StrictSubsetOrdering
  <1> HIDE DEF less
  <1>3. PICK s \in T : \A t \in T : ~(<<t, s>> \in less)
    BY <1>1, WFMin
  <1>4. ASSUME NEW x \in s, s \ {x} \in T PROVE FALSE
    <2> DEFINE smaller == s \ {x}
    <2>1. smaller \in SUBSET S /\ s \in SUBSET S /\ smaller # s /\ smaller \subseteq s
      OBVIOUS
    <2>2. smaller \in T
      BY <1>4
    <2> HIDE DEF smaller
    <2> QED
      BY <1>2, <1>3, <2>1, <2>2
  <1> QED
    BY <1>4

\* part is nothing for no elements and grows by f[x] with each x.
IsSum(part, f, S) ==
    /\ part[{}] = 0
    /\ \A s \in SUBSET S : \A x \in s : part[s] = f[x] + part[s \ {x}]

\* The sum of f over a set is that.
LEMMA SumByParts ==
    ASSUME NEW S, IsFiniteSet(S), NEW f, NEW part \in [SUBSET S -> Nat],
           IsSum(part, f, S)
    PROVE  SumFunctionOnSet(f, S) = part[S]
  <1> DEFINE pick(s) == CHOOSE x \in s : TRUE
             Sums(sum) ==
               sum = [s \in SUBSET S |->
                        IF s = {} THEN 0 ELSE f[pick(s)] + sum[s \ {pick(s)}]]
             iter == CHOOSE g : Sums(g)
  <1>1. \A s \in SUBSET S : s # {} => pick(s) \in s
    OBVIOUS
  <1> USE DEF IsSum
  <1>2. Sums(part)
    <2> HIDE DEF pick
    <2>1. \A s \in SUBSET S :
             part[s] = IF s = {} THEN 0 ELSE f[pick(s)] + part[s \ {pick(s)}]
      BY <1>1
    <2> QED
      BY <2>1
  <1>3. Sums(iter)
    <2> HIDE DEF Sums
    <2> QED
      BY <1>2
  <1>4. SumFunctionOnSet(f, S) = iter[S]
    BY DEF SumFunctionOnSet, FoldFunctionOnSet, MapThenFoldSet
  <1> HIDE DEF iter
  <1> DEFINE wrong == {s \in SUBSET S : iter[s] # part[s]}
  <1>5. ASSUME wrong # {} PROVE FALSE
    <2>1. PICK s \in wrong : \A x \in s : s \ {x} \notin wrong
      <3>1. wrong \in SUBSET SUBSET S
        OBVIOUS
      <3> HIDE DEF wrong
      <3> QED
        BY <1>5, <3>1, LeastSet
    <2>2. s \in SUBSET S /\ iter[s] # part[s]
      OBVIOUS
    <2>3. s # {}
      BY <1>2, <1>3, <2>2
    <2>4. pick(s) \in s
      BY <1>1, <2>2, <2>3
    <2> HIDE DEF pick
    <2>5. s \ {pick(s)} \in SUBSET S /\ iter[s \ {pick(s)}] = part[s \ {pick(s)}]
      BY <2>1, <2>2, <2>4
    <2>6. iter[s] = f[pick(s)] + iter[s \ {pick(s)}]
      BY <1>3, <2>2, <2>3
    <2> QED
      BY <2>2, <2>4, <2>5, <2>6
  <1> QED
    BY <1>4, <1>5

\* Numbers have such partial sums.
LEMMA PartsExist ==
    ASSUME NEW S, IsFiniteSet(S), NEW f, \A x \in S : f[x] \in Nat
    PROVE  \E part \in [SUBSET S -> Nat] : IsSum(part, f, S)
  <1> DEFINE Parts(s, part) == part \in [SUBSET s -> Nat] /\ IsSum(part, f, s)
             open == {s \in SUBSET S : ~ \E part : Parts(s, part)}
  <1>1. ASSUME open # {} PROVE FALSE
    <2>1. PICK s \in open : \A x \in s : s \ {x} \notin open
      <3>1. open \in SUBSET SUBSET S
        OBVIOUS
      <3> HIDE DEF open
      <3> QED
        BY <1>1, <3>1, LeastSet
    <2>2. s \in SUBSET S /\ ~ \E part : Parts(s, part)
      OBVIOUS
    <2>3. ASSUME s = {} PROVE FALSE
      <3> DEFINE none == [t \in SUBSET {} |-> 0]
      <3>1. Parts({}, none)
        BY DEF IsSum
      <3> HIDE DEF none, Parts
      <3> QED
        BY <2>2, <2>3, <3>1
    <2>4. PICK x \in s : TRUE
      BY <2>3
    <2>5. PICK part : Parts(s \ {x}, part)
      <3>1. s \ {x} \in SUBSET S
        BY <2>2
      <3> HIDE DEF Parts
      <3> QED
        BY <2>1, <2>4, <3>1
    <2> DEFINE longer == [t \in SUBSET s |->
                            IF x \in t THEN f[x] + part[t \ {x}] ELSE part[t]]
    <2>6. f[x] \in Nat /\ \A t \in SUBSET s : part[t \ {x}] \in Nat
      BY <2>2, <2>4, <2>5
    <2>7. longer \in [SUBSET s -> Nat]
      <3> SUFFICES ASSUME NEW t \in SUBSET s PROVE longer[t] \in Nat
        OBVIOUS
      <3>1. x \notin t => t \ {x} = t
        OBVIOUS
      <3> QED
        BY <2>6, <3>1
    <2>8. longer[{}] = 0
      BY <2>5 DEF IsSum
    <2>9. ASSUME NEW t \in SUBSET s, NEW y \in t
          PROVE  longer[t] = f[y] + longer[t \ {y}]
      <3>1. CASE y = x
        <4>1. longer[t] = f[x] + part[t \ {x}] /\ longer[t \ {x}] = part[t \ {x}]
          BY <3>1
        <4> QED
          BY <3>1, <4>1
      <3>2. CASE y # x /\ x \notin t
        <4>1. t \in SUBSET (s \ {x}) /\ t \ {y} \in SUBSET s
          BY <3>2
        <4>2. part[t] = f[y] + part[t \ {y}]
          BY <2>5, <4>1 DEF IsSum
        <4> QED
          BY <3>2, <4>1, <4>2
      <3>3. CASE y # x /\ x \in t
        <4> DEFINE rest == t \ {x}
        <4>1. rest \in SUBSET (s \ {x}) /\ y \in rest /\ t \ {y} \in SUBSET s
          BY <3>3
        <4>2. part[rest] = f[y] + part[rest \ {y}]
          BY <2>5, <4>1 DEF IsSum
        <4>3. (t \ {y}) \ {x} = rest \ {y}
          OBVIOUS
        <4>4. longer[t] = f[x] + part[rest] /\ longer[t \ {y}] = f[x] + part[rest \ {y}]
          BY <3>3, <4>1, <4>3
        <4>5. f[y] \in Nat /\ part[rest \ {y}] \in Nat
          <5>1. rest \ {y} \in SUBSET (s \ {x})
            BY <4>1
          <5> QED
            BY <2>2, <2>5, <5>1
        <4> HIDE DEF longer, rest
        <4> QED
          BY <2>6, <4>2, <4>4, <4>5
      <3> QED
        BY <3>1, <3>2, <3>3
    <2> HIDE DEF longer
    <2>10. Parts(s, longer)
      BY <2>7, <2>8, <2>9 DEF IsSum
    <2> QED
      BY <2>2, <2>10
  <1>2. S \notin open
    BY <1>1
  <1> QED
    BY <1>2

\* A sum with one more number.
LEMMA SumAdds ==
    ASSUME NEW S, IsFiniteSet(S), NEW x, x \notin S, NEW f,
           \A y \in S \cup {x} : f[y] \in Nat
    PROVE  /\ SumFunctionOnSet(f, S) \in Nat
           /\ SumFunctionOnSet(f, S \cup {x}) = f[x] + SumFunctionOnSet(f, S)
  <1> DEFINE more == S \cup {x}
  <1>1. IsFiniteSet(more)
    BY FS_AddElement
  <1>2. PICK part \in [SUBSET more -> Nat] : IsSum(part, f, more)
    BY <1>1, PartsExist
  <1> DEFINE own == [s \in SUBSET S |-> part[s]]
  <1>3. own \in [SUBSET S -> Nat]
    OBVIOUS
  <1>4. IsSum(own, f, S)
    BY <1>2 DEF IsSum
  <1>5. own[S] = part[S] /\ part[S] \in Nat
    OBVIOUS
  <1>6. part[more] = f[x] + part[S]
    <2>1. more \ {x} = S /\ x \in more
      OBVIOUS
    <2> HIDE DEF more
    <2> QED
      BY <1>2, <2>1 DEF IsSum
  <1> HIDE DEF own
  <1>7. SumFunctionOnSet(f, S) = own[S]
    BY <1>3, <1>4, SumByParts
  <1>8. SumFunctionOnSet(f, more) = part[more]
    <2> HIDE DEF more
    <2> QED
      BY <1>1, <1>2, SumByParts
  <1> QED
    BY <1>5, <1>6, <1>7, <1>8

\* The sum of nothing.
LEMMA SumOfNone ==
    ASSUME NEW f
    PROVE  SumFunctionOnSet(f, {}) = 0
  <1>1. IsFiniteSet({})
    BY FS_EmptySet
  <1>2. PICK part \in [SUBSET {} -> Nat] : IsSum(part, f, {})
    BY <1>1, PartsExist
  <1>3. SumFunctionOnSet(f, {}) = part[{}]
    BY <1>1, <1>2, SumByParts
  <1> QED
    BY <1>2, <1>3 DEF IsSum

\* Larger numbers have a larger sum.
LEMMA SumMonotone ==
    ASSUME NEW S, IsFiniteSet(S), NEW f, NEW g,
           \A x \in S : f[x] \in Nat /\ g[x] \in Nat /\ f[x] <= g[x]
    PROVE  /\ SumFunctionOnSet(f, S) \in Nat
           /\ SumFunctionOnSet(g, S) \in Nat
           /\ SumFunctionOnSet(f, S) <= SumFunctionOnSet(g, S)
  <1>1. PICK low \in [SUBSET S -> Nat] : IsSum(low, f, S)
    BY PartsExist
  <1>2. PICK high \in [SUBSET S -> Nat] : IsSum(high, g, S)
    BY PartsExist
  <1> DEFINE open == {s \in SUBSET S : ~(low[s] <= high[s])}
  <1>3. ASSUME open # {} PROVE FALSE
    <2>1. PICK s \in open : \A x \in s : s \ {x} \notin open
      <3>1. open \in SUBSET SUBSET S
        OBVIOUS
      <3> HIDE DEF open
      <3> QED
        BY <1>3, <3>1, LeastSet
    <2>2. s \in SUBSET S /\ ~(low[s] <= high[s])
      OBVIOUS
    <2>3. s # {}
      <3>1. ASSUME s = {} PROVE low[s] = 0 /\ high[s] = 0
        BY <1>1, <1>2, <3>1 DEF IsSum
      <3>2. ASSUME NEW a, NEW b, a = 0 /\ b = 0 PROVE a <= b
        BY <3>2
      <3> HIDE DEF open
      <3> QED
        BY <2>2, <3>1, <3>2
    <2>4. PICK x \in s : TRUE
      BY <2>3
    <2>5. s \ {x} \in SUBSET S /\ low[s \ {x}] <= high[s \ {x}]
      BY <2>1, <2>2, <2>4
    <2>6. /\ low[s] = f[x] + low[s \ {x}]
          /\ high[s] = g[x] + high[s \ {x}]
      BY <1>1, <1>2, <2>2, <2>4 DEF IsSum
    <2>7. /\ f[x] \in Nat /\ g[x] \in Nat /\ f[x] <= g[x]
          /\ low[s \ {x}] \in Nat /\ high[s \ {x}] \in Nat
      BY <2>2, <2>4, <2>5
    <2> HIDE DEF open
    <2> QED
      BY ONLY <2>2, <2>5, <2>6, <2>7
  <1>4. low[S] <= high[S] /\ low[S] \in Nat /\ high[S] \in Nat
    BY <1>3
  <1>5. SumFunctionOnSet(f, S) = low[S] /\ SumFunctionOnSet(g, S) = high[S]
    BY <1>1, <1>2, SumByParts
  <1> QED
    BY <1>4, <1>5

\* What one number falls by, the others not growing, the sum falls by.
LEMMA SumDrops ==
    ASSUME NEW S, IsFiniteSet(S), NEW f, NEW g, NEW x \in S, NEW k \in Nat,
           \A y \in S : f[y] \in Nat /\ g[y] \in Nat /\ f[y] <= g[y],
           f[x] + k <= g[x]
    PROVE  /\ SumFunctionOnSet(f, S) \in Nat
           /\ SumFunctionOnSet(g, S) \in Nat
           /\ SumFunctionOnSet(f, S) + k <= SumFunctionOnSet(g, S)
  <1> DEFINE T == S \ {x}
  <1>1. IsFiniteSet(T) /\ x \notin T /\ T \cup {x} = S
    BY FS_RemoveElement
  <1>2. \A y \in T : f[y] \in Nat /\ g[y] \in Nat /\ f[y] <= g[y]
    OBVIOUS
  <1>3. f[x] \in Nat /\ g[x] \in Nat
    OBVIOUS
  <1>4. \A y \in T \cup {x} : f[y] \in Nat /\ g[y] \in Nat
    BY <1>1
  <1> HIDE DEF T
  <1>5. /\ SumFunctionOnSet(f, T) \in Nat
        /\ SumFunctionOnSet(g, T) \in Nat
        /\ SumFunctionOnSet(f, T) <= SumFunctionOnSet(g, T)
    BY <1>1, <1>2, SumMonotone
  <1>6. /\ SumFunctionOnSet(f, T \cup {x}) = f[x] + SumFunctionOnSet(f, T)
        /\ SumFunctionOnSet(g, T \cup {x}) = g[x] + SumFunctionOnSet(g, T)
    BY <1>1, <1>4, SumAdds
  <1>7. SumFunctionOnSet(f, S) = f[x] + SumFunctionOnSet(f, T)
    BY <1>1, <1>6
  <1>8. SumFunctionOnSet(g, S) = g[x] + SumFunctionOnSet(g, T)
    BY <1>1, <1>6
  <1> QED
    BY <1>3, <1>5, <1>7, <1>8

\* The sum over two parts is the sum of both.
LEMMA SumOfUnion ==
    ASSUME NEW S, IsFiniteSet(S), NEW T, IsFiniteSet(T), S \cap T = {}, NEW f,
           \A x \in S \cup T : f[x] \in Nat
    PROVE  /\ SumFunctionOnSet(f, S) \in Nat
           /\ SumFunctionOnSet(f, T) \in Nat
           /\ SumFunctionOnSet(f, S \cup T)
                = SumFunctionOnSet(f, S) + SumFunctionOnSet(f, T)
  <1> DEFINE Adds(s) == /\ SumFunctionOnSet(f, s) \in Nat
                        /\ SumFunctionOnSet(f, S \cup s)
                             = SumFunctionOnSet(f, S) + SumFunctionOnSet(f, s)
             open == {s \in SUBSET T : ~Adds(s)}
  <1>1. SumFunctionOnSet(f, S) \in Nat
    <2>1. PICK part \in [SUBSET S -> Nat] : IsSum(part, f, S)
      BY PartsExist
    <2>2. SumFunctionOnSet(f, S) = part[S]
      BY <2>1, SumByParts
    <2> QED
      BY <2>2
  <1>2. ASSUME open # {} PROVE FALSE
    <2>1. PICK s \in open : \A x \in s : s \ {x} \notin open
      <3>1. open \in SUBSET SUBSET T
        OBVIOUS
      <3> HIDE DEF open
      <3> QED
        BY <1>2, <3>1, LeastSet
    <2>2. s \in SUBSET T /\ ~Adds(s)
      OBVIOUS
    <2>3. ASSUME s = {} PROVE FALSE
      <3>1. S \cup {} = S
        OBVIOUS
      <3>2. Adds({})
        BY <1>1, <3>1, SumOfNone
      <3> HIDE DEF Adds
      <3> QED
        BY <2>2, <2>3, <3>2
    <2>4. PICK x \in s : TRUE
      BY <2>3
    <2> DEFINE rest == s \ {x}
               more == S \cup rest
    <2>5. /\ rest \in SUBSET T /\ x \notin rest /\ s = rest \cup {x}
          /\ S \cup s = more \cup {x} /\ x \notin more
          /\ \A y \in more \cup {x} : f[y] \in Nat
      BY <2>2, <2>4
    <2>6. Adds(rest)
      <3> HIDE DEF Adds
      <3> QED
        BY <2>1, <2>4, <2>5
    <2>7. IsFiniteSet(rest) /\ IsFiniteSet(more)
      <3> HIDE DEF rest
      <3> QED
        BY <2>5, FS_Subset, FS_Union
    <2>8. SumFunctionOnSet(f, rest \cup {x}) = f[x] + SumFunctionOnSet(f, rest)
      <3>1. \A y \in rest \cup {x} : f[y] \in Nat
        BY <2>5
      <3> HIDE DEF rest
      <3> QED
        BY <2>5, <2>7, <3>1, SumAdds
    <2>9. SumFunctionOnSet(f, more \cup {x}) = f[x] + SumFunctionOnSet(f, more)
      <3> HIDE DEF more
      <3> QED
        BY <2>5, <2>7, SumAdds
    <2>10. f[x] \in Nat
      BY <2>5
    <2> HIDE DEF rest
    <2> QED
      BY <1>1, <2>2, <2>5, <2>6, <2>8, <2>9, <2>10
  <1>3. T \notin open
    BY <1>2
  <1> QED
    BY <1>1, <1>3

\* Powers of two, counted as sets.
LEMMA PowersOfTwo ==
    ASSUME NEW n \in Nat
    PROVE  2^0 = 1 /\ 2^n \in Nat /\ 2^(n + 1) = 2 * 2^n
  <1> DEFINE S == 1..n
             T == 1..(n + 1)
             with == {s \in SUBSET T : n + 1 \in s}
  <1>1. /\ IsFiniteSet(S) /\ Cardinality(S) = n
        /\ IsFiniteSet(T) /\ Cardinality(T) = n + 1
    BY FS_Interval
  <1>2. /\ IsFiniteSet(SUBSET S) /\ Cardinality(SUBSET S) = 2^n
        /\ IsFiniteSet(SUBSET T) /\ Cardinality(SUBSET T) = 2^(n + 1)
    <2> HIDE DEF S, T
    <2> QED
      BY <1>1, FS_SUBSET
  <1>3. 2^0 = 1
    <2>1. Cardinality(SUBSET {}) = 2^0
      BY FS_EmptySet, FS_SUBSET
    <2>2. SUBSET {} = {{}} /\ Cardinality({{}}) = 1
      BY FS_Singleton
    <2> QED
      BY <2>1, <2>2
  <1>4. T = S \cup {n + 1} /\ n + 1 \notin S
    OBVIOUS
  <1>5. SUBSET T = (SUBSET S) \cup with /\ (SUBSET S) \cap with = {}
    <2> HIDE DEF S, T
    <2> QED
      BY <1>4
  <1>6. ExistsBijection(SUBSET S, with)
    <2> DEFINE g == [s \in SUBSET S |-> s \cup {n + 1}]
    <2> HIDE DEF S, T
    <2>1. g \in [SUBSET S -> with]
      BY <1>4
    <2>2. \A s, t \in SUBSET S : g[s] = g[t] => s = t
      BY <1>4
    <2>3. \A t \in with : \E s \in SUBSET S : g[s] = t
      <3> TAKE t \in with
      <3>1. t \ {n + 1} \in SUBSET S /\ (t \ {n + 1}) \cup {n + 1} = t
        BY <1>4
      <3> QED
        BY <3>1
    <2> HIDE DEF g, with
    <2>4. g \in Bijection(SUBSET S, with)
      BY <2>1, <2>2, <2>3 DEF Bijection, Injection, Surjection, IsInjective
    <2> QED
      BY <2>4 DEF ExistsBijection
  <1> HIDE DEF S, T, with
  <1>7. IsFiniteSet(with) /\ Cardinality(with) = 2^n
    BY <1>2, <1>6, FS_Bijection
  <1>8. Cardinality(SUBSET T) = 2^n + 2^n - Cardinality({})
    BY <1>2, <1>5, <1>7, FS_Union
  <1>9. 2^n \in Nat
    BY <1>2, FS_CardinalityType
  <1> QED
    BY <1>2, <1>3, <1>8, <1>9, FS_EmptySet

\* What is counted group by group adds up to the whole.
LEMMA SumOverGroups ==
    ASSUME NEW R, IsFiniteSet(R), NEW S, IsFiniteSet(S), NEW group \in [R -> S],
           NEW f, \A g \in S : f[g] = Cardinality({r \in R : group[r] = g})
    PROVE  SumFunctionOnSet(f, S) = Cardinality(R)
  <1> DEFINE Within(s) == {r \in R : group[r] \in s}
             part == [s \in SUBSET S |-> Cardinality(Within(s))]
  <1>1. \A s \in SUBSET S : IsFiniteSet(Within(s)) /\ Cardinality(Within(s)) \in Nat
    <2> TAKE s \in SUBSET S
    <2>1. Within(s) \in SUBSET R
      OBVIOUS
    <2> HIDE DEF Within
    <2> QED
      BY <2>1, FS_Subset, FS_CardinalityType
  <1>2. part \in [SUBSET S -> Nat]
    BY <1>1
  <1>3. part[{}] = 0
    <2>1. Within({}) = {}
      OBVIOUS
    <2> HIDE DEF Within
    <2> QED
      BY <2>1, FS_EmptySet
  <1>4. ASSUME NEW s \in SUBSET S, NEW x \in s
        PROVE  part[s] = f[x] + part[s \ {x}]
    <2> DEFINE rest == Within(s \ {x})
               own == {r \in R : group[r] = x}
    <2>1. Within(s) = own \cup rest /\ own \cap rest = {}
      OBVIOUS
    <2>2. own = Within({x}) /\ {x} \in SUBSET S /\ s \ {x} \in SUBSET S
      OBVIOUS
    <2>3. f[x] = Cardinality(own)
      OBVIOUS
    <2>4. /\ part[s] = Cardinality(Within(s))
          /\ part[s \ {x}] = Cardinality(rest)
      BY <2>2
    <2> HIDE DEF own, part
    <2>5. /\ IsFiniteSet(own) /\ IsFiniteSet(rest)
          /\ Cardinality(own) \in Nat /\ Cardinality(rest) \in Nat
      BY <1>1, <2>2
    <2> HIDE DEF rest, Within
    <2>6. Cardinality(own \cup rest) = Cardinality(own) + Cardinality(rest) - Cardinality({})
      BY <2>1, <2>5, FS_Union
    <2> QED
      BY <2>1, <2>3, <2>4, <2>5, <2>6, FS_EmptySet
  <1>5. part[S] = Cardinality(R)
    <2>1. Within(S) = R
      OBVIOUS
    <2> HIDE DEF Within
    <2> QED
      BY <2>1
  <1> HIDE DEF part
  <1>6. IsSum(part, f, S)
    BY <1>3, <1>4 DEF IsSum
  <1>7. SumFunctionOnSet(f, S) = part[S]
    BY <1>2, <1>6, SumByParts
  <1> QED
    BY <1>5, <1>7

\* The image of a finite set is no larger than the set.
LEMMA ImageBound ==
    ASSUME NEW R, IsFiniteSet(R), NEW T, NEW f, \A x \in R : f[x] \in T,
           \A y \in T : \E x \in R : y = f[x]
    PROVE  IsFiniteSet(T) /\ Cardinality(T) <= Cardinality(R)
  <1> DEFINE g == [x \in R |-> f[x]]
  <1>1. g \in Surjection(R, T)
    BY DEF Surjection
  <1> HIDE DEF g
  <1> QED
    BY <1>1, FS_Surjection

=============================================================================
