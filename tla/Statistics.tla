----------------------------- MODULE Statistics -----------------------------
(***************************************************************************)
(* analysis/statistics.py: the Wilson interval around a rate, and          *)
(* McNemar's test of two detectors over the same targets, as the targets   *)
(* are compared one by one.  Every float is kept as the integers it is the *)
(* quotient of.                                                            *)
(***************************************************************************)
EXTENDS Integers, Functions

CONSTANTS
    ZNum, ZDen,      \* the square of wilson_interval's z is ZNum / ZDen
    Grid,            \* rates are asked about in steps of 1 / Grid
    MaxDiscordant,   \* bound on the targets the detectors disagree on
    MaxConcordant    \* bound on the others

\* A float z has a rational square; the default is 1.959963984540054.
ASSUME StatisticsAssumption ==
    /\ ZNum \in Nat \ {0}
    /\ ZDen \in Nat \ {0}
    /\ Grid \in Nat \ {0}
    /\ MaxDiscordant \in Nat
    /\ MaxConcordant \in Nat

VARIABLES
    both,       \* targets both detectors find the property on
    onlyA,      \* b: targets only detector A finds it on
    onlyB,      \* c
    neither

statisticsVars == <<both, onlyA, onlyB, neither>>

discordant == onlyA + onlyB

total == both + onlyA + onlyB + neither

-----------------------------------------------------------------------------
(* The code.                                                               *)

Square(x) == x * x

\* The half of the odds that z adds left out of the centre.
Inside_Uncentred(s, n, j, m) ==
    n * Square(2 * j * (n * ZDen + ZNum) - m * (2 * s * ZDen))
        <= Square(m) * ZNum * (4 * s * (n - s) * ZDen + n * ZNum)

\* wilson_interval(s, n), n > 0: whether low <= j/m <= high, both sides of
\* (j/m - center)^2 <= margin^2 times 4 n m^2 (n ZDen + ZNum)^2.  Clamping to 0
\* and 1 takes no j in 0..m away.
Inside(s, n, j, m) ==
    n * Square(2 * j * (n * ZDen + ZNum) - m * (2 * s * ZDen + ZNum))
        <= Square(m) * ZNum * (4 * s * (n - s) * ZDen + n * ZNum)

Smaller(b, c) == IF b < c THEN b ELSE c

\* math.comb
Comb(n, k) ==
    LET comb[i \in 0..k] == IF i = 0 THEN 1 ELSE (comb[i - 1] * (n - i + 1)) \div i
    IN  comb[k]

\* Of the 2^n ways n targets can fall, those in which i fall to one side.
Splits(n) == [i \in 0..n |-> Comb(n, i)]

TailSum(n, k) == SumFunctionOnSet(Splits(n), 0..k)

\* The tail on the side of b only.
ExactP_OneSided(b, c) == TailSum(b + c, b)

\* Twice the tail without the cap.
ExactP_Uncapped(b, c) ==
    IF b + c = 0 THEN 1 ELSE 2 * TailSum(b + c, Smaller(b, c))

\* mcnemar_exact_p, times 2^(b + c).
ExactP(b, c) ==
    LET n == b + c
    IN  IF n = 0 THEN 1 ELSE Smaller(2^n, 2 * TailSum(n, Smaller(b, c)))

Difference(b, c) == IF b < c THEN c - b ELSE b - c

\* The difference with its sign.
ChiSquare_Signed(b, c) == Square(b - c - 1)

\* mcnemar: the statistic, times b + c.
ChiSquare(b, c) == Square(Difference(b, c) - 1)

\* mcnemar: which number the note says to report.
Note(b, c) ==
    CASE b + c = 0 -> "no discordant pairs"
      [] b + c \in 1..24 -> "exact"
      [] OTHER -> "chi-square"

-----------------------------------------------------------------------------

Init == both = 0 /\ onlyA = 0 /\ onlyB = 0 /\ neither = 0

\* One more target, both detectors' verdicts on it.
Agree ==
    /\ both + neither < MaxConcordant
    /\ \/ both' = both + 1 /\ UNCHANGED neither
       \/ neither' = neither + 1 /\ UNCHANGED both
    /\ UNCHANGED <<onlyA, onlyB>>

Disagree ==
    /\ discordant < MaxDiscordant
    /\ \/ onlyA' = onlyA + 1 /\ UNCHANGED onlyB
       \/ onlyB' = onlyB + 1 /\ UNCHANGED onlyA
    /\ UNCHANGED <<both, neither>>

Next == Agree \/ Disagree

Spec == Init /\ [][Next]_statisticsVars

-----------------------------------------------------------------------------

\* wilson_interval inverts the score test: a rate is inside the interval
\* exactly when the observed count is within z standard deviations of it, so
\* the algebra of center, margin and denominator is the right one, at counts
\* of 0 and of all targets too.
ScoreTest(s, n, j, m) ==
    ZDen * Square(s * m - j * n) <= ZNum * j * (m - j) * n

IntervalIsScoreTest ==
    \A s \in {both + onlyA, both + onlyB}, j \in 0..Grid :
        total > 0 => (Inside(s, total, j, Grid) <=> ScoreTest(s, total, j, Grid))

\* "the two-sided binomial tail probability of a split at least as extreme as
\* the observed one" (mcnemar_exact_p): of the 2^n splits, those at least as
\* uneven as the observed one, on either side, the middle counted once.
ExactIsTwoSided ==
    ExactP(onlyA, onlyB) =
        SumFunctionOnSet(Splits(discordant),
            {i \in 0..discordant :
                Difference(i, discordant - i) >= Difference(onlyA, onlyB)})

\* The two numbers a large sample gets never contradict each other: of two
\* splits of as many pairs the more uneven one has no smaller statistic and no
\* larger p.
TestsAgree ==
    Note(onlyA, onlyB) = "chi-square" =>
        \A i \in 0..discordant :
            Difference(i, discordant - i) <= Difference(onlyA, onlyB) =>
                /\ ChiSquare(i, discordant - i) <= ChiSquare(onlyA, onlyB)
                /\ ExactP(i, discordant - i) >= ExactP(onlyA, onlyB)

\* The p-value follows the evidence: one more target for the detector that
\* leads never raises it, one more for the other never lowers it.
EvidenceCounts ==
    [][ Disagree =>
          IF Difference(onlyA, onlyB)' > Difference(onlyA, onlyB)
          THEN ExactP(onlyA, onlyB)' <= 2 * ExactP(onlyA, onlyB)
          ELSE ExactP(onlyA, onlyB)' >= 2 * ExactP(onlyA, onlyB) ]_statisticsVars

=============================================================================
